---- MODULE Spec2Model ----
(***************************************************************************)
(* rafo: upload state set, file worker and Omnia export of an upload.      *)
(*                                                                         *)
(*   UploadStates          src/rafo/model.py                               *)
(*   FileWorker            src/rafo/file_worker.py                         *)
(*   OmniaUploadExport     src/rafo/omnia/upload_export.py                 *)
(*                                                                         *)
(* An UploadState is written by the name of its enum member.  The value of *)
(* a member (the text stored in the multiple select field) is used by the  *)
(* code in two ways only: value.startswith(prefix) and the comparison of   *)
(* two values in sorted(); PrefixOf and ValueRank carry exactly these.     *)
(***************************************************************************)
EXTENDS Integers, Sequences, FiniteSets, TLC

VARIABLES
    root,       \* UploadStates.root of the instance under test
    rootB,      \* root of a second UploadStates holding the same members,
                \* which come in any order when sort() is called on it
    phase,      \* "input" before sort() was called on both, "sorted" after
    history,    \* prefixes of the update_state calls made on root so far
    store,      \* the upload's row in the backing store
    writes,     \* per track, the states written to the store so far
    cover_file,         \* FileWorker.cover_file: None or the submitted cover
    cached_upload,      \* FileWorker.__cached_upload: None or a fetched row
    file_name_prefix,   \* FileWorker.__file_name_prefix: None or the prefix
    finished_workers,   \* FileWorker.finished_workers
    temp_folder,        \* TRUE while the temp directory exists
    pc,         \* position of each worker task
    fetching,   \* tasks that found the cache empty and are about to fetch
    err,        \* generate_waveform's local err
    log,        \* optimize_file's local log
    input_options,      \* the input options Optimize.run hands to ffmpeg
    raw_file,   \* what ffmpeg reports of FileWorker.raw_file: its duration
                \* and the silence parts silencedetect prints
    audio_crop_allowance,   \* settings.audio_crop_allowance
    parser,     \* a call of Silence.__parse_ffmpeg_output: its argument, the
                \* index of the next line, its locals and where it is
    registered, \* how often each subtask incremented finished_workers
    show,       \* the row of the upload's show in the backing store
    omnia_items,    \* the items the platform holds for the upload's reference
    spc,        \* position of each export in run()
    events,     \* the messages each export has yielded so far
    ntf_class,  \* run()'s local ntf_class, by the target of the class
    fetched,    \* the row by_id returned in step 1 (run()'s local upload)
    omnia_item_id,  \* run()'s local omnia_item_id
    calls,      \* the platform calls and store writes each export has made
    raised      \* the step whose work raised and the exception, if any

statesVars == <<root, rootB, phase, history>>

storeVars == <<store, writes>>

\* what is fixed when the worker is constructed
fileVars == <<raw_file, audio_crop_allowance>>

workerVars == <<fileVars, parser, cover_file, cached_upload, file_name_prefix,
                finished_workers, temp_folder, pc, fetching, err, log,
                input_options, registered>>

sagaVars == <<show, omnia_items, spc, events, ntf_class, fetched,
              omnia_item_id, calls, raised>>

\* what no worker task touches
outsideWorker == <<root, rootB, phase, history, fileVars, parser, sagaVars>>

\* what no export touches
outsideSaga == <<root, rootB, phase, history, workerVars>>

vars == <<root, rootB, phase, history, store, writes, cover_file, cached_upload,
          file_name_prefix, finished_workers, temp_folder, pc, fetching, err,
          log, input_options, raw_file, audio_crop_allowance, parser, registered,
          show, omnia_items, spc, events, ntf_class, fetched, omnia_item_id,
          calls, raised>>

None == "None"

\* An Optional row or number is a sequence: empty for None, else one element.
NoRow == <<>>
NoId == <<>>

(***************************************************************************)
(* Bounds of the model.                                                    *)
(***************************************************************************)
MaxLen == 3
MaxCalls == 3
\* longest raw file, in half seconds, and most silence parts in a file
MaxDuration == 10
MaxParts == 2
\* most lines of a silencedetect output, and the latest time in it
MaxLines == 4
MaxTime == 2

(***************************************************************************)
(* class UploadState(str, Enum)                                            *)
(***************************************************************************)
WAVEFORM_PREFIX == "Waveform"
OPTIMIZATION_PREFIX == "Optimierung"
OMNIA_PREFIX == "Omnia"

Prefixes == {WAVEFORM_PREFIX, OPTIMIZATION_PREFIX, OMNIA_PREFIX}

WaveformStates ==
    {"WAVEFORM_PENDING", "WAVEFORM_RUNNING", "WAVEFORM_COMPLETE", "WAVEFORM_ERROR"}

OptimizationStates ==
    {"OPTIMIZATION_PENDING", "OPTIMIZATION_RUNNING", "OPTIMIZATION_COMPLETE",
     "OPTIMIZATION_SEE_LOG", "OPTIMIZATION_ERROR"}

OmniaStates ==
    {"OMNIA_PENDING", "OMNIA_RUNNING", "OMNIA_COMPLETE", "OMNIA_ERROR"}

UploadState == WaveformStates \cup OptimizationStates \cup OmniaStates

\* The text before the colon of a member's value.
PrefixOf(state) ==
    IF state \in WaveformStates THEN WAVEFORM_PREFIX
    ELSE IF state \in OptimizationStates THEN OPTIMIZATION_PREFIX
    ELSE OMNIA_PREFIX

\* value.startswith(prefix), for the three prefixes the code passes.
StartsWith(state, prefix) == PrefixOf(state) = prefix

\* Position of a member's value in the order of Python's str comparison:
\* "Omnia: Fehler ..." < "Omnia: Liegt ..." < "Omnia: Nicht ..." <
\* "Omnia: Upload ..." < "Optimierung: Ausstehend" < "Optimierung: Fehler" <
\* "Optimierung: Fertig" < "Optimierung: Fertig, Log beachten!" <
\* "Optimierung: L..." < "Waveform: Ausstehend" < "Waveform: Fehler" <
\* "Waveform: Fertig" < "Waveform: L...".
ValueRank(state) ==
    CASE state = "OMNIA_ERROR" -> 0
      [] state = "OMNIA_COMPLETE" -> 1
      [] state = "OMNIA_PENDING" -> 2
      [] state = "OMNIA_RUNNING" -> 3
      [] state = "OPTIMIZATION_PENDING" -> 4
      [] state = "OPTIMIZATION_ERROR" -> 5
      [] state = "OPTIMIZATION_COMPLETE" -> 6
      [] state = "OPTIMIZATION_SEE_LOG" -> 7
      [] state = "OPTIMIZATION_RUNNING" -> 8
      [] state = "WAVEFORM_PENDING" -> 9
      [] state = "WAVEFORM_ERROR" -> 10
      [] state = "WAVEFORM_COMPLETE" -> 11
      [] state = "WAVEFORM_RUNNING" -> 12

(***************************************************************************)
(* class UploadStates                                                      *)
(***************************************************************************)
ORDER_swapped == <<OPTIMIZATION_PREFIX, WAVEFORM_PREFIX, OMNIA_PREFIX>>

ORDER == <<WAVEFORM_PREFIX, OPTIMIZATION_PREFIX, OMNIA_PREFIX>>

all_pending == <<"WAVEFORM_PENDING", "OPTIMIZATION_PENDING", "OMNIA_PENDING">>

\* [state for state in self.root if not state.value.startswith(prefix)]
keep(states, prefix) == SelectSeq(states, LAMBDA state : ~StartsWith(state, prefix))

update_state_no_filter(states, prefix, new_state) == <<new_state>> \o states

\* UploadStates.update_state: self.root = [new_state] + keep
update_state(states, prefix, new_state) == <<new_state>> \o keep(states, prefix)

\* The first index of ORDER whose prefix the value starts with, -1 if none.
OrderIndex(state) ==
    IF \E i \in 1..Len(ORDER) : StartsWith(state, ORDER[i])
    THEN (CHOOSE i \in 1..Len(ORDER) :
            /\ StartsWith(state, ORDER[i])
            /\ \A j \in 1..(i - 1) : ~StartsWith(state, ORDER[j])) - 1
    ELSE -1

\* sort_by_order(value): the key (index, value) of sorted()
sort_by_order(state) == <<OrderIndex(state), ValueRank(state)>>

\* Python's comparison of two key tuples.
KeyLess(a, b) == a[1] < b[1] \/ (a[1] = b[1] /\ a[2] < b[2])

\* sorted() is stable: an element goes behind every element whose key is not
\* greater than its own.
RECURSIVE InsertSorted(_, _)
InsertSorted(state, sortedStates) ==
    IF sortedStates = <<>> THEN <<state>>
    ELSE IF KeyLess(sort_by_order(state), sort_by_order(Head(sortedStates)))
         THEN <<state>> \o sortedStates
         ELSE <<Head(sortedStates)>> \o InsertSorted(state, Tail(sortedStates))

RECURSIVE SortedFrom(_, _)
SortedFrom(states, acc) ==
    IF states = <<>> THEN acc
    ELSE SortedFrom(Tail(states), InsertSorted(Head(states), acc))

\* UploadStates.sort: self.root = sorted(self.root, key=sort_by_order)
sort(states) == SortedFrom(states, <<>>)

\* UploadStates.from_multiple_select_field: the entries that are values of
\* the enum, then sort().  Every entry of the field is one in this model.
from_multiple_select_field(field) ==
    sort(SelectSeq(field, LAMBDA entry : entry \in UploadState))

(***************************************************************************)
(* Helpers over sequences.                                                 *)
(***************************************************************************)
SeqsUpTo(S, n) == UNION {[1..k -> S] : k \in 0..n}

PermutationsOf(s) ==
    {[i \in 1..Len(s) |-> s[p[i]]] : p \in Permutations(1..Len(s))}

CountPrefix(states, prefix) ==
    Cardinality({i \in 1..Len(states) : StartsWith(states[i], prefix)})

(***************************************************************************)
(* The upload's row in the store (class BaserowUpload).  The model keeps   *)
(* the fields the worker and the export read or write: the Status field    *)
(* (state), the attached files, the optimization log and the Omnia ID.     *)
(***************************************************************************)
\* The row as the server creates it: BaserowUpload.state defaults to
\* UploadStates.all_pending(), no file is attached yet.
NewUpload ==
    [state |-> all_pending, files |-> {}, optimization_log |-> None,
     omnia_id |-> NoId]

\* BaserowUpload.state_enum of a fetched row
state_enum(upload) == from_multiple_select_field(upload.state)

\* BaserowUpload.update_state: the Status value it sends to the store.  The
\* states it starts from are those of the row object it is called on.
upload_update_state(upload, prefix, new_state) ==
    update_state(state_enum(upload), prefix, new_state)

\* no track state has been written
NoWrites == [prefix \in Prefixes |-> <<>>]

\* Table.update(row_id, state=...): only the named field of the row changes
WriteState(upload, prefix, new_state) ==
    /\ store' = [store EXCEPT
                    !.state = upload_update_state(upload, prefix, new_state)]
    /\ writes' = [writes EXCEPT ![prefix] = Append(@, new_state)]

\* Table.update(row_id, <field>=FileField([file_response]))
WriteFile(field) ==
    /\ store' = [store EXCEPT !.files = @ \cup {field}]
    /\ UNCHANGED writes

(***************************************************************************)
(* src/rafo/ffmpeg.py: SilencePart, Silence and Optimize.  Times are       *)
(* counted in half seconds: 2 is 1.0 s.                                    *)
(***************************************************************************)
abs(x) == IF x < 0 THEN 0 - x ELSE x

round_half_up(half) == (half + 1) \div 2

\* Python's round() of half / 2 seconds: to the nearest whole second, and
\* to the even one of the two when half is odd
round(half) ==
    IF half % 2 = 0 THEN half \div 2
    ELSE IF (half \div 2) % 2 = 0 THEN half \div 2 ELSE (half \div 2) + 1

\* SilencePart(start, end, duration), with duration = end - start as
\* __parse_ffmpeg_output sets it
SilencePart(start, end) == [start |-> start, end |-> end, duration |-> end - start]

is_at_start(part) == part.start = 0

is_at_end(part, file_duration) ==
    abs(round(file_duration) - round(part.end)) < 2

is_whole_file(part, file_duration) ==
    abs(round(file_duration) - round(part.duration)) < 2

\* the first element of parts that satisfies the test of the loop, or None
FirstPart(parts, matching) ==
    IF matching = {} THEN <<>>
    ELSE <<parts[CHOOSE i \in matching : \A j \in matching : i <= j]>>

start_silence(file) ==
    FirstPart(file.silence_parts,
              {i \in 1..Len(file.silence_parts) : is_at_start(file.silence_parts[i])})

end_silence(file) ==
    FirstPart(file.silence_parts,
              {i \in 1..Len(file.silence_parts) :
                  is_at_end(file.silence_parts[i], file.duration)})

intermediate_silences_with_end(file) ==
    SelectSeq(file.silence_parts, LAMBDA part : ~is_at_start(part))

intermediate_silences(file) ==
    SelectSeq(file.silence_parts,
              LAMBDA part : /\ ~is_at_start(part)
                            /\ ~is_at_end(part, file.duration))

whole_file_is_silence(file) ==
    \E i \in 1..Len(file.silence_parts) :
        is_whole_file(file.silence_parts[i], file.duration)

silence_log_without_start(file) ==
    IF whole_file_is_silence(file) THEN <<[line |-> "whole_file"]>>
    ELSE (IF end_silence(file) # <<>> THEN <<[line |-> "end"]>> ELSE <<>>)
         \o [i \in 1..Len(intermediate_silences(file)) |-> [line |-> "intermediate"]]

silence_log_whole_file_appended(file) ==
    (IF start_silence(file) # <<>> THEN <<[line |-> "start"]>> ELSE <<>>)
    \o (IF whole_file_is_silence(file) THEN <<[line |-> "whole_file"]>> ELSE <<>>)
    \o (IF end_silence(file) # <<>> THEN <<[line |-> "end"]>> ELSE <<>>)
    \o [i \in 1..Len(intermediate_silences(file)) |-> [line |-> "intermediate"]]

\* Silence.log: the lines it joins with "\n"
silence_log(file) ==
    IF whole_file_is_silence(file) THEN <<[line |-> "whole_file"]>>
    ELSE (IF start_silence(file) # <<>> THEN <<[line |-> "start"]>> ELSE <<>>)
         \o (IF end_silence(file) # <<>> THEN <<[line |-> "end"]>> ELSE <<>>)
         \o [i \in 1..Len(intermediate_silences(file)) |-> [line |-> "intermediate"]]

\* "\n".join(rsl): the empty string for no line
join(lines) == IF lines = <<>> THEN "" ELSE "silence found"

Optimize_run_crops_any_start(file, crop_allowance) ==
    [ss |-> IF start_silence(file) # <<>>
            THEN <<start_silence(file)[1].end - crop_allowance>> ELSE <<>>,
     to |-> IF end_silence(file) # <<>>
            THEN <<end_silence(file)[1].start + crop_allowance>> ELSE <<>>]

\* Optimize.run: input_options["ss"] and input_options["to"]
Optimize_run(file, crop_allowance) ==
    [ss |-> IF /\ start_silence(file) # <<>>
               /\ start_silence(file)[1].end > crop_allowance
            THEN <<start_silence(file)[1].end - crop_allowance>> ELSE <<>>,
     to |-> IF end_silence(file) # <<>>
            THEN <<end_silence(file)[1].start + crop_allowance>> ELSE <<>>]

NoOptions == [ss |-> <<>>, to |-> <<>>]

RECURSIVE Ascending(_)
Ascending(S) ==
    IF S = {} THEN <<>>
    ELSE LET least == CHOOSE x \in S : \A y \in S : x <= y
         IN <<least>> \o Ascending(S \ {least})

\* the parts silencedetect prints for silences that start and end at cuts
PartsAt(cuts) ==
    [i \in 1..(Cardinality(cuts) \div 2) |->
        SilencePart(Ascending(cuts)[2 * i - 1], Ascending(cuts)[2 * i])]

\* the raw files of at most MaxDuration with at most MaxParts silences
RawFiles ==
    UNION {{[duration |-> d, silence_parts |-> PartsAt(cuts)] :
              cuts \in {c \in SUBSET (0..d) : /\ Cardinality(c) % 2 = 0
                                              /\ Cardinality(c) <= 2 * MaxParts}} :
           d \in 1..MaxDuration}

\* crop allowances of half a second, one second and one and a half
CropAllowances == 1..3

\* no file is being worked on
NoFile == [duration |-> 0, silence_parts |-> <<>>]

(***************************************************************************)
(* Silence.__parse_ffmpeg_output.  A line of the output is what the two    *)
(* regular expressions find in it: the time behind " silence_start: " and  *)
(* the time behind " silence_end: ", each None when there is no match.     *)
(***************************************************************************)
Line(start, end) == [start |-> start, end |-> end]

\* rsl.append(SilencePart(start, -1, -1))
OpenPart(start) == [start |-> start, end |-> -1, duration |-> -1]

\* the position of list[i] in a Python list of length len, 0 for IndexError
list_index(len, i) ==
    IF i >= 0 THEN (IF i < len THEN i + 1 ELSE 0)
    ELSE (IF len + i >= 0 THEN len + i + 1 ELSE 0)

\* the locals after the `if start_entry_match:` block of one line
AfterStartMatch(p, entry) ==
    IF entry.start # <<>>
    THEN [p EXCEPT !.silence_index = @ + 1,
                   !.rsl = Append(@, OpenPart(entry.start[1]))]
    ELSE p

closes_first_part(p, entry) ==
    LET at == 1
    IN [p EXCEPT !.rsl[at].end = entry.end[1],
                 !.rsl[at].duration = entry.end[1] - p.rsl[at].start]

\* rsl[silence_index].end = end; rsl[silence_index].duration = end - start
AfterEndMatch(p, entry) ==
    LET at == list_index(Len(p.rsl), p.silence_index)
    IN [p EXCEPT !.rsl[at].end = entry.end[1],
                 !.rsl[at].duration = entry.end[1] - p.rsl[at].start]

NoParse == [output |-> <<>>, line |-> 1, silence_index |-> -1, rsl |-> <<>>,
            at |-> "idle"]

\* the call with ffmpeg_output = output: silence_index = -1, rsl = []
ParseCall(output) ==
    [output |-> output, line |-> 1, silence_index |-> -1, rsl |-> <<>>,
     at |-> "loop"]

parseUnchanged == <<root, rootB, phase, history, storeVars, fileVars, cover_file,
                    cached_upload, file_name_prefix, finished_workers,
                    temp_folder, pc, fetching, err, log, input_options,
                    registered, sagaVars>>

\* one turn of `for line in ffmpeg_output:` that raises nothing
ParseLine ==
    /\ parser.at = "loop"
    /\ parser.line <= Len(parser.output)
    /\ LET entry == parser.output[parser.line]
           started == AfterStartMatch(parser, entry)
       IN /\ entry.end # <<>> =>
                list_index(Len(started.rsl), started.silence_index) # 0
          /\ parser' = [(IF entry.end # <<>> THEN AfterEndMatch(started, entry)
                                            ELSE started)
                           EXCEPT !.line = @ + 1]
    /\ UNCHANGED parseUnchanged

\* rsl[silence_index] raises IndexError: the call ends without a list
ParseLineRaises ==
    /\ parser.at = "loop"
    /\ parser.line <= Len(parser.output)
    /\ LET entry == parser.output[parser.line]
           started == AfterStartMatch(parser, entry)
       IN /\ entry.end # <<>>
          /\ list_index(Len(started.rsl), started.silence_index) = 0
          /\ parser' = [started EXCEPT !.at = "raised"]
    /\ UNCHANGED parseUnchanged

\* return rsl
ParseReturn ==
    /\ parser.at = "loop"
    /\ parser.line > Len(parser.output)
    /\ parser' = [parser EXCEPT !.at = "returned"]
    /\ UNCHANGED parseUnchanged

(***************************************************************************)
(* class FileWorker.  The server schedules the four subtasks and the       *)
(* barrier as separate background tasks of one FileWorker.                 *)
(***************************************************************************)
Subtasks == {"upload_raw", "upload_cover", "generate_waveform", "optimize_file"}

Barrier == "delete_temp_folder_on_completion"

Tasks == Subtasks \cup {Barrier}

WorkerInit ==
    /\ cover_file \in {None, "cover"}
    /\ cached_upload = NoRow
    /\ file_name_prefix = None
    /\ finished_workers = 0
    /\ temp_folder = TRUE
    /\ pc = [t \in Tasks |-> "start"]
    /\ fetching = [t \in Subtasks |-> FALSE]
    /\ err = None
    /\ log = None
    /\ input_options = NoOptions
    /\ registered = [t \in Subtasks |-> 0]

At(t, label) == pc[t] = label

Goto(t, label) == pc' = [pc EXCEPT ![t] = label]

\* with self.count_lock: self.finished_workers += 1
Count(t) ==
    /\ finished_workers' = finished_workers + 1
    /\ registered' = [registered EXCEPT ![t] = @ + 1]

\* FileWorker.__upload, `if self.__cached_upload is None` found true: the
\* task goes on to fetch the row, whatever the other tasks do meanwhile.
UploadCacheMiss(t) ==
    /\ At(t, "start")
    /\ ~(t = "upload_cover" /\ cover_file = None)
    /\ ~fetching[t]
    /\ cached_upload = NoRow
    /\ fetching' = [fetching EXCEPT ![t] = TRUE]
    /\ UNCHANGED <<outsideWorker, storeVars, cover_file, cached_upload, file_name_prefix,
                   finished_workers, temp_folder, pc, err, log, input_options, registered>>

\* self.__cached_upload = BaserowUpload.by_id(self.upload_id).one()
UploadFetch(t) ==
    /\ fetching[t]
    /\ cached_upload' = <<store>>
    /\ fetching' = [fetching EXCEPT ![t] = FALSE]
    /\ UNCHANGED <<outsideWorker, storeVars, cover_file, file_name_prefix, finished_workers,
                   temp_folder, pc, err, log, input_options, registered>>

\* by_id raises: the first call of __upload() of each subtask is outside
\* any try block, the exception leaves the subtask.
UploadFetchRaises(t) ==
    /\ fetching[t]
    /\ fetching' = [fetching EXCEPT ![t] = FALSE]
    /\ Goto(t, "raised")
    /\ UNCHANGED <<outsideWorker, storeVars, cover_file, cached_upload, file_name_prefix,
                   finished_workers, temp_folder, err, log, input_options, registered>>

\* __upload() returns the cached row
HasUpload(t) == ~fetching[t] /\ cached_upload # NoRow

CachedUpload == cached_upload[1]

\* FileWorker.__file_name fills the prefix cache on its first use
FileNameResolved == file_name_prefix' = "prefix"

\* ---- upload_raw / upload_cover --------------------------------------
\* __upload_named_file: copy inside the temp folder, File.upload_file,
\* update of the row's file field.
UploadNamedFile(t, field) ==
    /\ At(t, "start")
    /\ HasUpload(t)
    /\ temp_folder
    /\ FileNameResolved
    /\ WriteFile(field)
    /\ Goto(t, "count")
    /\ UNCHANGED <<outsideWorker, cover_file, cached_upload, finished_workers, temp_folder,
                   fetching, err, log, input_options, registered>>

UploadNamedFileRaisesCounted(t) ==
    /\ At(t, "start")
    /\ HasUpload(t)
    /\ FileNameResolved
    /\ Count(t)
    /\ Goto(t, "raised")
    /\ UNCHANGED <<outsideWorker, storeVars, cover_file, cached_upload, temp_folder,
                   fetching, err, log, input_options>>

\* the copy, the file upload or the row update raises: no handler
UploadNamedFileRaises(t) ==
    /\ At(t, "start")
    /\ HasUpload(t)
    /\ FileNameResolved
    /\ Goto(t, "raised")
    /\ UNCHANGED <<outsideWorker, storeVars, cover_file, cached_upload, finished_workers,
                   temp_folder, fetching, err, log, input_options, registered>>

CountAndReturn(t) ==
    /\ At(t, "count")
    /\ Count(t)
    /\ Goto(t, "done")
    /\ UNCHANGED <<outsideWorker, storeVars, cover_file, cached_upload, file_name_prefix,
                   temp_folder, fetching, err, log, input_options>>

upload_raw ==
    \/ UploadNamedFile("upload_raw", "source_file")
    \/ UploadNamedFileRaises("upload_raw")
    \/ CountAndReturn("upload_raw")

\* if self.cover_file is None: return
UploadCoverSkip ==
    /\ At("upload_cover", "start")
    /\ cover_file = None
    /\ Goto("upload_cover", "done")
    /\ UNCHANGED <<outsideWorker, storeVars, cover_file, cached_upload, file_name_prefix,
                   finished_workers, temp_folder, fetching, err, log, input_options, registered>>

upload_cover ==
    \/ UploadCoverSkip
    \/ (cover_file # None /\ UploadNamedFile("upload_cover", "cover"))
    \/ (cover_file # None /\ UploadNamedFileRaises("upload_cover"))
    \/ CountAndReturn("upload_cover")

\* ---- generate_waveform ----------------------------------------------
WF == "generate_waveform"

\* update_state(WAVEFORM_PREFIX, WAVEFORM_RUNNING), before the try block
WaveformRunning ==
    /\ At(WF, "start")
    /\ HasUpload(WF)
    /\ WriteState(CachedUpload, WAVEFORM_PREFIX, "WAVEFORM_RUNNING")
    /\ Goto(WF, "run")
    /\ UNCHANGED <<outsideWorker, cover_file, cached_upload, file_name_prefix, finished_workers,
                   temp_folder, fetching, err, log, input_options, registered>>

WaveformRunningRaises ==
    /\ At(WF, "start")
    /\ HasUpload(WF)
    /\ Goto(WF, "raised")
    /\ UNCHANGED <<outsideWorker, storeVars, cover_file, cached_upload, file_name_prefix,
                   finished_workers, temp_folder, fetching, err, log, input_options, registered>>

\* file_name = self.__file_name(...); err = waveform.run(raw_file, output_path)
WaveformRun ==
    /\ At(WF, "run")
    /\ temp_folder
    /\ FileNameResolved
    /\ err' \in {None, "Error"}
    /\ Goto(WF, "upload")
    /\ UNCHANGED <<outsideWorker, storeVars, cover_file, cached_upload, finished_workers,
                   temp_folder, fetching, log, input_options, registered>>

WaveformRunRaises ==
    /\ At(WF, "run")
    /\ FileNameResolved
    /\ Goto(WF, "except")
    /\ UNCHANGED <<outsideWorker, storeVars, cover_file, cached_upload, finished_workers,
                   temp_folder, fetching, err, log, input_options, registered>>

\* self.__upload_named_file(output_path, "waveform", "waveform")
WaveformUpload ==
    /\ At(WF, "upload")
    /\ temp_folder
    /\ WriteFile("waveform")
    /\ Goto(WF, "state")
    /\ UNCHANGED <<outsideWorker, cover_file, cached_upload, file_name_prefix, finished_workers,
                   temp_folder, fetching, err, log, input_options, registered>>

WaveformUploadRaises ==
    /\ At(WF, "upload")
    /\ Goto(WF, "except")
    /\ UNCHANGED <<outsideWorker, storeVars, cover_file, cached_upload, file_name_prefix,
                   finished_workers, temp_folder, fetching, err, log, input_options, registered>>

\* except Exception: with self.count_lock: self.finished_workers += 1
WaveformExceptCount ==
    /\ At(WF, "except")
    /\ Count(WF)
    /\ Goto(WF, "except_state")
    /\ UNCHANGED <<outsideWorker, storeVars, cover_file, cached_upload, file_name_prefix,
                   temp_folder, fetching, err, log, input_options>>

WaveformExceptStateFallsThrough ==
    /\ At(WF, "except_state")
    /\ WriteState(CachedUpload, WAVEFORM_PREFIX, "WAVEFORM_ERROR")
    /\ Goto(WF, "state")
    /\ UNCHANGED <<outsideWorker, cover_file, cached_upload, file_name_prefix, finished_workers,
                   temp_folder, fetching, err, log, input_options, registered>>

\* update_state(WAVEFORM_PREFIX, WAVEFORM_ERROR); raise
WaveformExceptState ==
    /\ At(WF, "except_state")
    /\ WriteState(CachedUpload, WAVEFORM_PREFIX, "WAVEFORM_ERROR")
    /\ Goto(WF, "raised")
    /\ UNCHANGED <<outsideWorker, cover_file, cached_upload, file_name_prefix, finished_workers,
                   temp_folder, fetching, err, log, input_options, registered>>

\* the update in the handler raises itself
WaveformExceptStateRaises ==
    /\ At(WF, "except_state")
    /\ Goto(WF, "raised")
    /\ UNCHANGED <<outsideWorker, storeVars, cover_file, cached_upload, file_name_prefix,
                   finished_workers, temp_folder, fetching, err, log, input_options, registered>>

\* if err is not None: WAVEFORM_ERROR else: WAVEFORM_COMPLETE (after the try)
WaveformState ==
    /\ At(WF, "state")
    /\ WriteState(CachedUpload, WAVEFORM_PREFIX,
                  IF err # None THEN "WAVEFORM_ERROR" ELSE "WAVEFORM_COMPLETE")
    /\ Goto(WF, "count")
    /\ UNCHANGED <<outsideWorker, cover_file, cached_upload, file_name_prefix, finished_workers,
                   temp_folder, fetching, err, log, input_options, registered>>

WaveformStateRaises ==
    /\ At(WF, "state")
    /\ Goto(WF, "raised")
    /\ UNCHANGED <<outsideWorker, storeVars, cover_file, cached_upload, file_name_prefix,
                   finished_workers, temp_folder, fetching, err, log, input_options, registered>>

generate_waveform ==
    \/ WaveformRunning
    \/ WaveformRunningRaises
    \/ WaveformRun
    \/ WaveformRunRaises
    \/ WaveformUpload
    \/ WaveformUploadRaises
    \/ WaveformExceptCount
    \/ WaveformExceptState
    \/ WaveformExceptStateRaises
    \/ WaveformState
    \/ WaveformStateRaises
    \/ CountAndReturn(WF)

\* ---- optimize_file ---------------------------------------------------
OPT == "optimize_file"

\* update_state(OPTIMIZATION_PREFIX, OPTIMIZATION_RUNNING), before the try
OptimizeRunning ==
    /\ At(OPT, "start")
    /\ HasUpload(OPT)
    /\ WriteState(CachedUpload, OPTIMIZATION_PREFIX, "OPTIMIZATION_RUNNING")
    /\ Goto(OPT, "lookup")
    /\ UNCHANGED <<outsideWorker, cover_file, cached_upload, file_name_prefix, finished_workers,
                   temp_folder, fetching, err, log, input_options, registered>>

OptimizeRunningRaises ==
    /\ At(OPT, "start")
    /\ HasUpload(OPT)
    /\ Goto(OPT, "raised")
    /\ UNCHANGED <<outsideWorker, storeVars, cover_file, cached_upload, file_name_prefix,
                   finished_workers, temp_folder, fetching, err, log, input_options, registered>>

\* file_name = self.__file_name("opt", ".mp3"); get_uploader(); get_show()
OptimizeLookup ==
    /\ At(OPT, "lookup")
    /\ FileNameResolved
    /\ Goto(OPT, "run")
    /\ UNCHANGED <<outsideWorker, storeVars, cover_file, cached_upload, finished_workers,
                   temp_folder, fetching, err, log, input_options, registered>>

\* get_uploader() or get_show() raises, still before the try block
OptimizeLookupRaises ==
    /\ At(OPT, "lookup")
    /\ FileNameResolved
    /\ Goto(OPT, "raised")
    /\ UNCHANGED <<outsideWorker, storeVars, cover_file, cached_upload, finished_workers,
                   temp_folder, fetching, err, log, input_options, registered>>

\* Silence(raw_file); optimize.run(output_path); Metadata(output_path);
\* log = silence.log(): empty or not
OptimizeRun ==
    /\ At(OPT, "run")
    /\ temp_folder
    /\ input_options' = Optimize_run(raw_file, audio_crop_allowance)
    /\ log' = join(silence_log(raw_file))
    /\ Goto(OPT, "state")
    /\ UNCHANGED <<outsideWorker, storeVars, cover_file, cached_upload, file_name_prefix,
                   finished_workers, temp_folder, fetching, err, registered>>

OptimizeRunRaisesSwallowed ==
    /\ At(OPT, "run")
    /\ Goto(OPT, "upload")
    /\ UNCHANGED <<outsideWorker, storeVars, cover_file, cached_upload, file_name_prefix,
                   finished_workers, temp_folder, fetching, err, log, input_options,
                   registered>>

\* Silence(...), optimize.run(output_path) or Metadata(...) raises
OptimizeRunRaises ==
    /\ At(OPT, "run")
    /\ Goto(OPT, "except")
    /\ UNCHANGED <<outsideWorker, storeVars, cover_file, cached_upload, file_name_prefix,
                   finished_workers, temp_folder, fetching, err, log, input_options, registered>>

OptimizeStateAlwaysComplete ==
    /\ At(OPT, "state")
    /\ WriteState(CachedUpload, OPTIMIZATION_PREFIX, "OPTIMIZATION_COMPLETE")
    /\ Goto(OPT, "log")
    /\ UNCHANGED <<outsideWorker, cover_file, cached_upload, file_name_prefix, finished_workers,
                   temp_folder, fetching, err, log, input_options, registered>>

\* if log == "": OPTIMIZATION_COMPLETE else: OPTIMIZATION_SEE_LOG
OptimizeState ==
    /\ At(OPT, "state")
    /\ WriteState(CachedUpload, OPTIMIZATION_PREFIX,
                  IF log = "" THEN "OPTIMIZATION_COMPLETE" ELSE "OPTIMIZATION_SEE_LOG")
    /\ Goto(OPT, "log")
    /\ UNCHANGED <<outsideWorker, cover_file, cached_upload, file_name_prefix, finished_workers,
                   temp_folder, fetching, err, log, input_options, registered>>

OptimizeStateRaises ==
    /\ At(OPT, "state")
    /\ Goto(OPT, "except")
    /\ UNCHANGED <<outsideWorker, storeVars, cover_file, cached_upload, file_name_prefix,
                   finished_workers, temp_folder, fetching, err, log, input_options, registered>>

\* log = f"{log}\nFinal running time: {duration}"; update_optimizing_log(log)
OptimizeLog ==
    /\ At(OPT, "log")
    /\ store' = [store EXCEPT !.optimization_log = "log"]
    /\ UNCHANGED writes
    /\ Goto(OPT, "upload")
    /\ UNCHANGED <<outsideWorker, cover_file, cached_upload, file_name_prefix, finished_workers,
                   temp_folder, fetching, err, log, input_options, registered>>

OptimizeLogRaises ==
    /\ At(OPT, "log")
    /\ Goto(OPT, "except")
    /\ UNCHANGED <<outsideWorker, storeVars, cover_file, cached_upload, file_name_prefix,
                   finished_workers, temp_folder, fetching, err, log, input_options, registered>>

\* self.__upload_named_file(output_path, "opt", "optimized_file")
OptimizeUpload ==
    /\ At(OPT, "upload")
    /\ temp_folder
    /\ WriteFile("optimized_file")
    /\ Goto(OPT, "count")
    /\ UNCHANGED <<outsideWorker, cover_file, cached_upload, file_name_prefix, finished_workers,
                   temp_folder, fetching, err, log, input_options, registered>>

OptimizeUploadRaises ==
    /\ At(OPT, "upload")
    /\ Goto(OPT, "except")
    /\ UNCHANGED <<outsideWorker, storeVars, cover_file, cached_upload, file_name_prefix,
                   finished_workers, temp_folder, fetching, err, log, input_options, registered>>

\* except Exception: update_state(OPTIMIZATION_PREFIX, OPTIMIZATION_ERROR)
OptimizeExceptState ==
    /\ At(OPT, "except")
    /\ WriteState(CachedUpload, OPTIMIZATION_PREFIX, "OPTIMIZATION_ERROR")
    /\ Goto(OPT, "except_count")
    /\ UNCHANGED <<outsideWorker, cover_file, cached_upload, file_name_prefix, finished_workers,
                   temp_folder, fetching, err, log, input_options, registered>>

\* the update in the handler raises itself, before the counter is reached
OptimizeExceptStateRaises ==
    /\ At(OPT, "except")
    /\ Goto(OPT, "raised")
    /\ UNCHANGED <<outsideWorker, storeVars, cover_file, cached_upload, file_name_prefix,
                   finished_workers, temp_folder, fetching, err, log, input_options, registered>>

\* with self.count_lock: self.finished_workers += 1; raise
OptimizeExceptCount ==
    /\ At(OPT, "except_count")
    /\ Count(OPT)
    /\ Goto(OPT, "raised")
    /\ UNCHANGED <<outsideWorker, storeVars, cover_file, cached_upload, file_name_prefix,
                   temp_folder, fetching, err, log, input_options>>

optimize_file ==
    \/ OptimizeRunning
    \/ OptimizeRunningRaises
    \/ OptimizeLookup
    \/ OptimizeLookupRaises
    \/ OptimizeRun
    \/ OptimizeRunRaises
    \/ OptimizeState
    \/ OptimizeStateRaises
    \/ OptimizeLog
    \/ OptimizeLogRaises
    \/ OptimizeUpload
    \/ OptimizeUploadRaises
    \/ OptimizeExceptState
    \/ OptimizeExceptStateRaises
    \/ OptimizeExceptCount
    \/ CountAndReturn(OPT)

\* ---- delete_temp_folder_on_completion --------------------------------
loop_exits_early(count) == count >= 3

\* while self.finished_workers != 4: pass -- the loop is left when this holds
loop_exits(count) == ~(count # 4)

BarrierLeavesLoop ==
    /\ At(Barrier, "start")
    /\ loop_exits(finished_workers)
    /\ Goto(Barrier, "rmtree")
    /\ UNCHANGED <<outsideWorker, storeVars, cover_file, cached_upload, file_name_prefix,
                   finished_workers, temp_folder, fetching, err, log, input_options, registered>>

\* shutil.rmtree(self.temp_folder)
BarrierDelete ==
    /\ At(Barrier, "rmtree")
    /\ temp_folder' = FALSE
    /\ Goto(Barrier, "done")
    /\ UNCHANGED <<outsideWorker, storeVars, cover_file, cached_upload, file_name_prefix,
                   finished_workers, fetching, err, log, input_options, registered>>

delete_temp_folder_on_completion == BarrierLeavesLoop \/ BarrierDelete

(***************************************************************************)
(* class Notification and its subclasses: the messages of the event        *)
(* stream.  to_message() gives "data: <json>\n\n"; the json carries the    *)
(* target, the state, the title and the items.  A title is written by the  *)
(* name of the classmethod that builds it.                                 *)
(***************************************************************************)
Targets ==
    <<"init", "show", "refnr", "upload", "metadata", "cover",
      "update_baserow_entry", "omnia_validation">>

Message(target, state, title, items) ==
    [data |-> "json", target |-> target, state |-> state, title |-> title,
     items |-> items]

\* Notification._running / _done / _warning
Running(target) == Message(target, "running", "running", {})
Done(target, items) == Message(target, "done", "done", items)
Warning(target, items) == Message(target, "warning", "warning", items)

\* <Step>Notification.error(e): from_exception(e, title)
Error(target) == Message(target, "error", "from_exception", {})

\* InitNotification.omnia_id_not_empty(e)
omnia_id_not_empty ==
    Message("init", "error", "omnia_id_not_empty", {"Baserow ID", "Name", "Omnia ID"})

\* OmniaUploadExport.__close_connection: "data: CLOSE CONNECTION\n\n"
close_connection ==
    [data |-> "CLOSE CONNECTION", target |-> None, state |-> None,
     title |-> None, items |-> {}]

(***************************************************************************)
(* class OmniaUploadExport.  Each request of the export endpoint makes one *)
(* instance and consumes its run() generator.                              *)
(***************************************************************************)
Sagas == {1}

\* two requests that name the same upload
Exports == {1, 2}

\* settings.shows_for_all_upload_exports
shows_for_all_upload_exports == <<901, 902>>

\* The keys __omnia_validation may put into its result
ValidatedFields ==
    {"Titel", "Beschreibung", "Verknuepfte Sendung", "Erstsendedatum",
     "Verfuegbar ab (Desktop)", "Verfuegbar bis (Desktop)",
     "Verfuegbar ab (Mobil)", "Verfuegbar bis (Mobil)"}

\* the fields __validate_field compares, in the order of __omnia_validation
PlainFields ==
    <<"Titel", "Beschreibung", "Erstsendedatum", "Verfuegbar ab (Desktop)",
      "Verfuegbar bis (Desktop)", "Verfuegbar ab (Mobil)",
      "Verfuegbar bis (Mobil)">>

\* An item of the platform, as upload_by_url creates it
\* differs, connected_media and connected_ids are what a later by_id of the
\* item shows: the plain fields whose value is not the requested one, and
\* the connected media ("None", "without_shows" or "shows" with their ids)
NewItem(id) ==
    [item_id |-> id, metadata |-> FALSE, restrictions |-> FALSE, shows |-> {},
     cover |-> None, differs |-> {}, connected_media |-> "None",
     connected_ids |-> {}]

SagaInit(active) ==
    LET instances == Sagas \cup active
    IN /\ spc = [s \in instances |->
                    IF s \in active THEN <<"init", "work">> ELSE <<"idle", "">>]
       /\ events = [s \in instances |-> <<>>]
       /\ ntf_class = [s \in instances |-> "init"]
       /\ fetched = [s \in instances |-> NoRow]
       /\ omnia_item_id = [s \in instances |-> NoId]
       /\ calls = [s \in instances |-> <<>>]
       /\ raised = [s \in instances |-> <<>>]

\* no export has been requested
SagaIdle ==
    /\ show = [omnia_id |-> NoId, cover |-> FALSE, is_radio |-> FALSE]
    /\ omnia_items = <<>>
    /\ SagaInit({})

SAt(s, step, at) == spc[s] = <<step, at>>

SGoto(s, step, at) == spc' = [spc EXCEPT ![s] = <<step, at>>]

\* yield <message>
Yield(s, message) == events' = [events EXCEPT ![s] = Append(@, message)]

\* a call to the platform or a write to the store made by step `target`
Call(s, target, names) ==
    calls' = [calls EXCEPT ![s] = @ \o [i \in 1..Len(names) |-> <<target, names[i]>>]]

\* The work of the current step raises an Exception.
\* except Exception as e: yield ntf_class.error(e).to_message()
Fails(s) ==
    /\ raised' = [raised EXCEPT ![s] = <<spc[s][1], "Exception">>]
    /\ Yield(s, Error(ntf_class[s]))
    /\ SGoto(s, "close", "work")
    /\ UNCHANGED ntf_class

omnia_id_set_and_below_one(omnia_id) == omnia_id # NoId /\ omnia_id[1] < 1

\* __fetch_baserow_upload: the condition that raises OmniaIDNotEmptyError
omnia_id_not_none(omnia_id) ==
    omnia_id # NoId \/ (omnia_id # NoId /\ omnia_id[1] < 1)

\* ---- step 1: upload = await self.__fetch_baserow_upload() -------------
FetchUpload(s) ==
    /\ SAt(s, "init", "work")
    /\ ~omnia_id_not_none(store.omnia_id)
    /\ fetched' = [fetched EXCEPT ![s] = <<store>>]
    /\ Yield(s, Done("init", {"Baserow ID", "Name", "Geplante Ausstrahlung"}))
    /\ SGoto(s, "show", "running")
    /\ UNCHANGED <<outsideSaga, raised, ntf_class, storeVars, show, omnia_items,
                   omnia_item_id, calls>>

\* except OmniaIDNotEmptyError as e: yield init_ntf_class.omnia_id_not_empty(e)
FetchUploadAlreadyExported(s) ==
    /\ SAt(s, "init", "work")
    /\ omnia_id_not_none(store.omnia_id)
    /\ fetched' = [fetched EXCEPT ![s] = <<store>>]
    /\ raised' = [raised EXCEPT ![s] = <<"init", "OmniaIDNotEmptyError">>]
    /\ Yield(s, omnia_id_not_empty)
    /\ SGoto(s, "close", "work")
    /\ UNCHANGED <<outsideSaga, ntf_class, storeVars, show, omnia_items,
                   omnia_item_id, calls>>

\* by_id raises
FetchUploadRaises(s) ==
    /\ SAt(s, "init", "work")
    /\ Fails(s)
    /\ UNCHANGED <<outsideSaga, storeVars, show, omnia_items, fetched,
                   omnia_item_id, calls>>

\* ---- ntf_class = <Step>Notification; yield ntf_class.running(...) ------
StepRunningSilent(s, target) ==
    /\ SAt(s, target, "running")
    /\ ntf_class' = [ntf_class EXCEPT ![s] = target]
    /\ SGoto(s, target, "work")
    /\ UNCHANGED <<outsideSaga, raised, storeVars, show, omnia_items, events,
                   fetched, omnia_item_id, calls>>

StepRunningStaleClass(s, target) ==
    /\ SAt(s, target, "running")
    /\ Yield(s, Running(target))
    /\ SGoto(s, target, "work")
    /\ UNCHANGED <<outsideSaga, raised, ntf_class, storeVars, show, omnia_items, fetched,
                   omnia_item_id, calls>>

StepRunning(s, target) ==
    /\ SAt(s, target, "running")
    /\ ntf_class' = [ntf_class EXCEPT ![s] = target]
    /\ Yield(s, Running(target))
    /\ SGoto(s, target, "work")
    /\ UNCHANGED <<outsideSaga, raised, storeVars, show, omnia_items, fetched,
                   omnia_item_id, calls>>

\* ---- step 2: omnia_show = await self.__fetch_omnia_show(upload) --------
FetchOmniaShowSkipsRefNr(s) ==
    /\ SAt(s, "show", "work")
    /\ show.omnia_id # NoId
    /\ Call(s, "show", <<"by_id">>)
    /\ Yield(s, Done("show", {"Omnia Show ID", "Omnia Show Titel"}))
    /\ SGoto(s, "upload", "running")
    /\ UNCHANGED <<outsideSaga, raised, ntf_class, storeVars, show, omnia_items,
                   fetched, omnia_item_id>>

FetchOmniaShow(s) ==
    /\ SAt(s, "show", "work")
    /\ show.omnia_id # NoId
    /\ Call(s, "show", <<"by_id">>)
    /\ Yield(s, Done("show", {"Omnia Show ID", "Omnia Show Titel"}))
    /\ SGoto(s, "refnr", "running")
    /\ UNCHANGED <<outsideSaga, raised, ntf_class, storeVars, show, omnia_items,
                   fetched, omnia_item_id>>

\* cached_show raises, or show.omnia_id is None: no call reaches the platform
FetchOmniaShowRaisesBeforeCall(s) ==
    /\ SAt(s, "show", "work")
    /\ Fails(s)
    /\ UNCHANGED <<outsideSaga, storeVars, show, omnia_items, fetched,
                   omnia_item_id, calls>>

\* omnia.by_id raises, or its response is no MediaResult
FetchOmniaShowRaises(s) ==
    /\ SAt(s, "show", "work")
    /\ show.omnia_id # NoId
    /\ Call(s, "show", <<"by_id">>)
    /\ Fails(s)
    /\ UNCHANGED <<outsideSaga, storeVars, show, omnia_items, fetched,
                   omnia_item_id>>

\* ---- step 3: ref_check_rsl = await self.__check_ref_nr(ref_nr) ---------
\* Every item of omnia_items carries the reference number of this upload.
CheckRefNrHitIsError(s) ==
    /\ SAt(s, "refnr", "work")
    /\ Call(s, "refnr", <<"by_reference">>)
    /\ IF omnia_items # <<>>
       THEN /\ Yield(s, Error("refnr"))
            /\ SGoto(s, "close", "work")
       ELSE /\ Yield(s, Done("refnr", {}))
            /\ SGoto(s, "upload", "running")
    /\ UNCHANGED <<outsideSaga, raised, ntf_class, storeVars, show, omnia_items,
                   fetched, omnia_item_id>>

CheckRefNr(s) ==
    /\ SAt(s, "refnr", "work")
    /\ Call(s, "refnr", <<"by_reference">>)
    /\ IF omnia_items # <<>>
       THEN Yield(s, Warning("refnr", {"Schon bestehender Omnia Eintrag", "Achtung"}))
       ELSE Yield(s, Done("refnr", {}))
    /\ SGoto(s, "upload", "running")
    /\ UNCHANGED <<outsideSaga, raised, ntf_class, storeVars, show, omnia_items,
                   fetched, omnia_item_id>>

\* by_reference raises, or its result is neither None nor a MediaResult
CheckRefNrRaises(s) ==
    /\ SAt(s, "refnr", "work")
    /\ Call(s, "refnr", <<"by_reference">>)
    /\ Fails(s)
    /\ UNCHANGED <<outsideSaga, storeVars, show, omnia_items, fetched,
                   omnia_item_id>>

\* ---- step 4: omnia_item_id, data = await self.__upload_file(upload) ----
\* generated_id of the item the platform creates
GeneratedId == Len(omnia_items) + 1

UploadFile(s) ==
    /\ SAt(s, "upload", "work")
    /\ "optimized_file" \in fetched[s][1].files
    /\ Call(s, "upload", <<"upload_by_url">>)
    /\ omnia_items' = Append(omnia_items, NewItem(GeneratedId))
    /\ omnia_item_id' = [omnia_item_id EXCEPT ![s] = <<GeneratedId>>]
    /\ Yield(s, Done("upload", {"Omnia Element ID"}))
    /\ SGoto(s, "metadata", "running")
    /\ UNCHANGED <<outsideSaga, raised, ntf_class, storeVars, show, fetched>>

\* upload.optimized_file is None or empty, or has no url: ValueError
UploadFileNoFile(s) ==
    /\ SAt(s, "upload", "work")
    /\ "optimized_file" \notin fetched[s][1].files
    /\ Fails(s)
    /\ UNCHANGED <<outsideSaga, storeVars, show, omnia_items, fetched,
                   omnia_item_id, calls>>

\* upload_by_url raises, no item comes into being
UploadFileRaises(s) ==
    /\ SAt(s, "upload", "work")
    /\ "optimized_file" \in fetched[s][1].files
    /\ Call(s, "upload", <<"upload_by_url">>)
    /\ Fails(s)
    /\ UNCHANGED <<outsideSaga, storeVars, show, omnia_items, fetched,
                   omnia_item_id>>

\* the item is created, but the response has no ManagementResult/itemupdate
UploadFileBadResponse(s) ==
    /\ SAt(s, "upload", "work")
    /\ "optimized_file" \in fetched[s][1].files
    /\ Call(s, "upload", <<"upload_by_url">>)
    /\ omnia_items' = Append(omnia_items, NewItem(GeneratedId))
    /\ Fails(s)
    /\ UNCHANGED <<outsideSaga, storeVars, show, fetched, omnia_item_id>>

\* ---- step 5: data = await self.__set_metadata(...) --------------------
\* The calls of __set_metadata in their order: update, update_restrictions,
\* connect_show for the show, and for a radio show connect_show for every
\* id of shows_for_all_upload_exports.
MetadataCalls ==
    <<"update", "update_restrictions", "connect_show">>
    \o (IF show.is_radio
        THEN [i \in 1..Len(shows_for_all_upload_exports) |-> "connect_show"]
        ELSE <<>>)

\* the shows connected by the first k calls
ConnectedShows(k) ==
    (IF k >= 3 THEN {show.omnia_id[1]} ELSE {})
    \cup {shows_for_all_upload_exports[i] : i \in 1..(IF k > 3 THEN k - 3 ELSE 0)}

\* the item after the first k calls of __set_metadata
ItemAfterMetadata(item, k) ==
    [item EXCEPT !.metadata = @ \/ k >= 1,
                 !.restrictions = @ \/ k >= 2,
                 !.shows = @ \cup ConnectedShows(k)]

ItemIndex(id) == CHOOSE i \in 1..Len(omnia_items) : omnia_items[i].item_id = id

SetMetadata(s) ==
    /\ SAt(s, "metadata", "work")
    /\ LET id == omnia_item_id[s][1]
           n == Len(MetadataCalls)
       IN /\ Call(s, "metadata", MetadataCalls)
          /\ omnia_items' = [omnia_items EXCEPT ![ItemIndex(id)] =
                                ItemAfterMetadata(@, n)]
    /\ Yield(s, Done("metadata", {"Titel", "Beschreibung", "Verknuepft mit Sendung"}))
    /\ SGoto(s, "cover", "running")
    /\ UNCHANGED <<outsideSaga, raised, ntf_class, storeVars, show, fetched,
                   omnia_item_id>>

SetMetadataRaisesMarksError(s) ==
    /\ SAt(s, "metadata", "work")
    /\ \E k \in 0..(Len(MetadataCalls) - 1) :
         LET id == omnia_item_id[s][1]
         IN /\ Call(s, "metadata", SubSeq(MetadataCalls, 1, k))
            /\ omnia_items' = [omnia_items EXCEPT ![ItemIndex(id)] =
                                  ItemAfterMetadata(@, k)]
    /\ WriteState(fetched[s][1], OMNIA_PREFIX, "OMNIA_ERROR")
    /\ Fails(s)
    /\ UNCHANGED <<outsideSaga, show, fetched, omnia_item_id>>

\* omnia_description() or one of the calls raises: the calls before it were
\* made, the raising one (if any) and those behind it have no effect
SetMetadataRaises(s) ==
    /\ SAt(s, "metadata", "work")
    /\ \E k \in 0..(Len(MetadataCalls) - 1) :
         LET id == omnia_item_id[s][1]
         IN /\ Call(s, "metadata", SubSeq(MetadataCalls, 1, k))
            /\ omnia_items' = [omnia_items EXCEPT ![ItemIndex(id)] =
                                  ItemAfterMetadata(@, k)]
    /\ Fails(s)
    /\ UNCHANGED <<outsideSaga, storeVars, show, fetched, omnia_item_id>>

CoverSourcePrefersShow ==
    [uploadHasCover \in BOOLEAN, showHasCover \in BOOLEAN |->
        IF showHasCover THEN "SHOW" ELSE IF uploadHasCover THEN "UPLOAD" ELSE None]

\* ---- step 6: cover_info = await self.__set_cover(omnia_item_id, upload) -
\* CoverSource of __set_cover: the upload's cover if it has one, else the
\* show's, None if neither has one
CoverSource ==
    [uploadHasCover \in BOOLEAN, showHasCover \in BOOLEAN |->
        IF uploadHasCover THEN "UPLOAD" ELSE IF showHasCover THEN "SHOW" ELSE None]

SetCover(s) ==
    /\ SAt(s, "cover", "work")
    /\ LET source == CoverSource["cover" \in fetched[s][1].files, show.cover]
           id == omnia_item_id[s][1]
       IN /\ source # None
          /\ omnia_items' = [omnia_items EXCEPT ![ItemIndex(id)].cover = source]
          /\ Yield(s, Done("cover", {source}))
    /\ Call(s, "cover", <<"update_cover">>)
    /\ SGoto(s, "update_baserow_entry", "running")
    /\ UNCHANGED <<outsideSaga, raised, ntf_class, storeVars, show, fetched,
                   omnia_item_id>>

\* neither the upload nor the show has a cover: ValueError before any call
SetCoverNoCover(s) ==
    /\ SAt(s, "cover", "work")
    /\ CoverSource["cover" \in fetched[s][1].files, show.cover] = None
    /\ Fails(s)
    /\ UNCHANGED <<outsideSaga, storeVars, show, omnia_items, fetched,
                   omnia_item_id, calls>>

\* update_cover raises
SetCoverRaises(s) ==
    /\ SAt(s, "cover", "work")
    /\ CoverSource["cover" \in fetched[s][1].files, show.cover] # None
    /\ Call(s, "cover", <<"update_cover">>)
    /\ Fails(s)
    /\ UNCHANGED <<outsideSaga, storeVars, show, omnia_items, fetched,
                   omnia_item_id>>

\* ---- step 7: await self.__update_baserow_entry(omnia_item_id, upload) --
\* BaserowUpload.update(upload.row_id, by_alias=True, omnia_id=omnia_item_id)
UpdateOmniaIdOfShow(s) ==
    /\ SAt(s, "update_baserow_entry", "work")
    /\ store' = [store EXCEPT !.omnia_id = show.omnia_id]
    /\ UNCHANGED writes
    /\ Call(s, "update_baserow_entry", <<"update omnia_id">>)
    /\ SGoto(s, "update_baserow_entry", "update_state")
    /\ UNCHANGED <<outsideSaga, raised, ntf_class, show, omnia_items,
                   events, fetched, omnia_item_id>>

UpdateOmniaId(s) ==
    /\ SAt(s, "update_baserow_entry", "work")
    /\ store' = [store EXCEPT !.omnia_id = omnia_item_id[s]]
    /\ UNCHANGED writes
    /\ Call(s, "update_baserow_entry", <<"update omnia_id">>)
    /\ SGoto(s, "update_baserow_entry", "update_state")
    /\ UNCHANGED <<outsideSaga, raised, ntf_class, show, omnia_items,
                   events, fetched, omnia_item_id>>

UpdateOmniaIdRaises(s) ==
    /\ SAt(s, "update_baserow_entry", "work")
    /\ Fails(s)
    /\ UNCHANGED <<outsideSaga, storeVars, show, omnia_items, fetched,
                   omnia_item_id, calls>>

\* await upload.update_state(OMNIA_PREFIX, OMNIA_COMPLETE), on the row
\* fetched in step 1
UpdateOmniaState(s) ==
    /\ SAt(s, "update_baserow_entry", "update_state")
    /\ WriteState(fetched[s][1], OMNIA_PREFIX, "OMNIA_COMPLETE")
    /\ Call(s, "update_baserow_entry", <<"update state">>)
    /\ Yield(s, Done("update_baserow_entry", {}))
    /\ SGoto(s, "omnia_validation", "running")
    /\ UNCHANGED <<outsideSaga, raised, ntf_class, show, omnia_items,
                   fetched, omnia_item_id>>

UpdateOmniaStateRaises(s) ==
    /\ SAt(s, "update_baserow_entry", "update_state")
    /\ Fails(s)
    /\ UNCHANGED <<outsideSaga, storeVars, show, omnia_items, fetched,
                   omnia_item_id, calls>>

\* ---- step 8: validation_rsl = await self.__omnia_validation(...) -------
validate_field_overwrites(rsl, name, expected, actual) ==
    IF expected = actual THEN rsl ELSE {name}

\* __validate_field: no key if expected == actual, else rsl[name] = "..."
validate_field(rsl, name, expected, actual) ==
    IF expected = actual THEN rsl ELSE rsl \cup {name}

\* __validate_show_field, for an expected id that is not None (the show
\* lookup of step 2 has raised otherwise)
validate_show_field(rsl, name, expected, omnia_rsl) ==
    IF omnia_rsl.connected_media = "None" THEN rsl \cup {name}
    ELSE IF omnia_rsl.connected_media = "without_shows" THEN rsl \cup {name}
    ELSE IF expected \notin omnia_rsl.connected_ids THEN rsl \cup {name}
    ELSE rsl

\* the value by_id returns for a plain field of the item
ActualValue(item, name) ==
    IF name \in item.differs THEN "other" ELSE "requested"

\* the calls of __validate_field for the plain fields from the i-th on
RECURSIVE ValidatePlainFrom(_, _, _)
ValidatePlainFrom(rsl, item, i) ==
    IF i > Len(PlainFields) THEN rsl
    ELSE ValidatePlainFrom(
             validate_field(rsl, PlainFields[i], "requested",
                            ActualValue(item, PlainFields[i])),
             item, i + 1)

\* the dict __omnia_validation returns for the re-fetched item (its keys)
omnia_validation(item) ==
    validate_show_field(ValidatePlainFrom({}, item, 1), "Verknuepfte Sendung",
                        show.omnia_id[1], item)

\* rsp = await self.omnia.by_id(...): what the item holds is the platform's
\* to decide
OmniaValidationFetch(s) ==
    /\ SAt(s, "omnia_validation", "work")
    /\ Call(s, "omnia_validation", <<"by_id">>)
    /\ LET idx == ItemIndex(omnia_item_id[s][1])
       IN \E differing \in SUBSET (ValidatedFields \ {"Verknuepfte Sendung"}) :
          \E connected \in {"None", "without_shows", "shows"} :
          \E ids \in {omnia_items[idx].shows,
                      omnia_items[idx].shows \ {show.omnia_id[1]}} :
             /\ connected # "shows" => ids = {}
             /\ omnia_items' = [omnia_items EXCEPT
                                  ![idx].differs = differing,
                                  ![idx].connected_media = connected,
                                  ![idx].connected_ids = ids]
    /\ SGoto(s, "omnia_validation", "validate")
    /\ UNCHANGED <<outsideSaga, raised, ntf_class, storeVars, show, events,
                   fetched, omnia_item_id>>

\* the __validate_field calls (the values of the upload they await have
\* been returned to steps 2 and 5 of the same run);
\* if len(validation_rsl) > 0: warning else done
OmniaValidation(s) ==
    /\ SAt(s, "omnia_validation", "validate")
    /\ LET validation_rsl ==
              omnia_validation(omnia_items[ItemIndex(omnia_item_id[s][1])])
       IN IF Cardinality(validation_rsl) > 0
          THEN Yield(s, Warning("omnia_validation", validation_rsl))
          ELSE Yield(s, Done("omnia_validation", {}))
    /\ SGoto(s, "close", "work")
    /\ UNCHANGED <<outsideSaga, raised, ntf_class, storeVars, show, omnia_items,
                   fetched, omnia_item_id, calls>>

\* by_id raises, or the response has no MediaResult / publishing data
OmniaValidationRaises(s) ==
    /\ SAt(s, "omnia_validation", "work")
    /\ Call(s, "omnia_validation", <<"by_id">>)
    /\ Fails(s)
    /\ UNCHANGED <<outsideSaga, storeVars, show, omnia_items, fetched,
                   omnia_item_id>>

\* ---- yield self.__close_connection() ---------------------------------
close_only_on_success(s) ==
    /\ SAt(s, "close", "work")
    /\ IF events[s][Len(events[s])].state = "error"
       THEN UNCHANGED events
       ELSE Yield(s, close_connection)
    /\ SGoto(s, "closed", "")
    /\ UNCHANGED <<outsideSaga, raised, ntf_class, storeVars, show, omnia_items,
                   fetched, omnia_item_id, calls>>

CloseConnection(s) ==
    /\ SAt(s, "close", "work")
    /\ Yield(s, close_connection)
    /\ SGoto(s, "closed", "")
    /\ UNCHANGED <<outsideSaga, raised, ntf_class, storeVars, show, omnia_items,
                   fetched, omnia_item_id, calls>>

(***************************************************************************)
(* Specification of one UploadStates instance, starting all pending.       *)
(***************************************************************************)
StatesInit ==
    /\ root = all_pending
    /\ rootB = all_pending
    /\ phase = "input"
    /\ history = <<>>
    /\ store = NewUpload
    /\ writes = NoWrites
    /\ WorkerInit
    /\ raw_file = NoFile
    /\ audio_crop_allowance = 2
    /\ SagaIdle
    /\ parser = NoParse

\* update_state(prefix, new_state) with a state of the track named by prefix
StatesUpdateState ==
    /\ Len(history) < MaxCalls
    /\ \E prefix \in {WAVEFORM_PREFIX, OPTIMIZATION_PREFIX, OMNIA_PREFIX} :
         \E new_state \in UploadState :
            /\ StartsWith(new_state, prefix)
            /\ root' = update_state(root, prefix, new_state)
            /\ history' = Append(history, prefix)
    /\ UNCHANGED <<rootB, phase, storeVars, workerVars, sagaVars>>

StatesSort ==
    /\ root' = sort(root)
    /\ UNCHANGED <<rootB, phase, history, storeVars, workerVars, sagaVars>>

StatesNext == StatesUpdateState \/ StatesSort

SpecStates == StatesInit /\ [][StatesNext]_vars

(***************************************************************************)
(* Specification of sort() on two UploadStates with the same members.      *)
(***************************************************************************)
SortInit ==
    /\ root \in SeqsUpTo(UploadState, MaxLen)
    /\ rootB = root
    /\ phase = "input"
    /\ history = <<>>
    /\ store = NewUpload
    /\ writes = NoWrites
    /\ WorkerInit
    /\ raw_file = NoFile
    /\ audio_crop_allowance = 2
    /\ SagaIdle
    /\ parser = NoParse

SortBoth ==
    /\ phase = "input"
    /\ root' = sort(root)
    /\ \E members \in PermutationsOf(rootB) : rootB' = sort(members)
    /\ phase' = "sorted"
    /\ UNCHANGED <<history, storeVars, workerVars, sagaVars>>

SortNext == SortBoth

SpecSort == SortInit /\ [][SortNext]_vars

(***************************************************************************)
(* Specification of one FileWorker on a freshly created upload.            *)
(***************************************************************************)
StatesIdle ==
    /\ root = all_pending
    /\ rootB = all_pending
    /\ phase = "input"
    /\ history = <<>>

\* a file without silence and one with 2 s of silence at its start
FilesOfWorker ==
    {file \in RawFiles :
        /\ file.duration = MaxDuration
        /\ file.silence_parts \in {<<>>, <<SilencePart(0, 4)>>}}

WorkerSpecInit ==
    /\ StatesIdle
    /\ store = NewUpload
    /\ writes = NoWrites
    /\ WorkerInit
    /\ raw_file \in FilesOfWorker
    /\ audio_crop_allowance = 2
    /\ SagaIdle
    /\ parser = NoParse

WorkerNext ==
    \/ \E t \in Subtasks : UploadCacheMiss(t)
    \/ \E t \in Subtasks : UploadFetch(t)
    \/ \E t \in Subtasks : UploadFetchRaises(t)
    \/ upload_raw
    \/ upload_cover
    \/ generate_waveform
    \/ optimize_file
    \/ delete_temp_folder_on_completion

SpecWorker == WorkerSpecInit /\ [][WorkerNext]_vars

(***************************************************************************)
(* Specification of optimize_file alone, on any raw file and allowance.    *)
(***************************************************************************)
OptimizeSpecInit ==
    /\ StatesIdle
    /\ store = NewUpload
    /\ writes = NoWrites
    /\ WorkerInit
    /\ raw_file \in RawFiles
    /\ audio_crop_allowance \in CropAllowances
    /\ SagaIdle
    /\ parser = NoParse

OptimizeNext ==
    \/ UploadCacheMiss(OPT)
    \/ UploadFetch(OPT)
    \/ UploadFetchRaises(OPT)
    \/ optimize_file

SpecOptimize == OptimizeSpecInit /\ [][OptimizeNext]_vars

(***************************************************************************)
(* Specification of one export of an upload the worker has dealt with.     *)
(***************************************************************************)
\* No worker is running: its tasks have returned.
WorkerIdle ==
    /\ cover_file = None
    /\ cached_upload = NoRow
    /\ file_name_prefix = None
    /\ finished_workers = 0
    /\ temp_folder = FALSE
    /\ pc = [t \in Tasks |-> "done"]
    /\ fetching = [t \in Subtasks |-> FALSE]
    /\ err = None
    /\ log = None
    /\ input_options = NoOptions
    /\ raw_file = NoFile
    /\ audio_crop_allowance = 2
    /\ registered = [t \in Subtasks |-> 0]

\* Status values a finished worker leaves in the store
StatesAfterWorker ==
    {<<"WAVEFORM_COMPLETE", "OPTIMIZATION_PENDING", "OMNIA_PENDING">>,
     <<"OPTIMIZATION_COMPLETE", "WAVEFORM_PENDING", "OMNIA_PENDING">>,
     <<"OPTIMIZATION_SEE_LOG", "WAVEFORM_PENDING", "OMNIA_PENDING">>}

\* The row when the export is requested: exported before (Omnia ID set) or
\* not, with or without an optimized file and a cover.
UploadsToExport ==
    [state : StatesAfterWorker,
     files : {{"source_file", "waveform"} \cup f : f \in SUBSET {"optimized_file", "cover"}},
     optimization_log : {"log"},
     omnia_id : {NoId, <<1>>}]

Shows == [omnia_id : {NoId, <<5>>}, cover : BOOLEAN, is_radio : BOOLEAN]

SagaSpecInit ==
    /\ StatesIdle
    /\ WorkerIdle
    /\ store \in UploadsToExport
    /\ writes = NoWrites
    /\ show \in Shows
    /\ omnia_items \in {<<>>, <<NewItem(1)>>}
    /\ SagaInit({1})
    /\ parser = NoParse

SagaNext ==
    \/ \E s \in Sagas : FetchUpload(s)
    \/ \E s \in Sagas : FetchUploadAlreadyExported(s)
    \/ \E s \in Sagas : FetchUploadRaises(s)
    \/ \E s \in Sagas : \E i \in 2..Len(Targets) : StepRunning(s, Targets[i])
    \/ \E s \in Sagas : FetchOmniaShow(s)
    \/ \E s \in Sagas : FetchOmniaShowRaisesBeforeCall(s)
    \/ \E s \in Sagas : FetchOmniaShowRaises(s)
    \/ \E s \in Sagas : CheckRefNr(s)
    \/ \E s \in Sagas : CheckRefNrRaises(s)
    \/ \E s \in Sagas : UploadFile(s)
    \/ \E s \in Sagas : UploadFileNoFile(s)
    \/ \E s \in Sagas : UploadFileRaises(s)
    \/ \E s \in Sagas : UploadFileBadResponse(s)
    \/ \E s \in Sagas : SetMetadata(s)
    \/ \E s \in Sagas : SetMetadataRaises(s)
    \/ \E s \in Sagas : SetCover(s)
    \/ \E s \in Sagas : SetCoverNoCover(s)
    \/ \E s \in Sagas : SetCoverRaises(s)
    \/ \E s \in Sagas : UpdateOmniaId(s)
    \/ \E s \in Sagas : UpdateOmniaIdRaises(s)
    \/ \E s \in Sagas : UpdateOmniaState(s)
    \/ \E s \in Sagas : UpdateOmniaStateRaises(s)
    \/ \E s \in Sagas : OmniaValidationFetch(s)
    \/ \E s \in Sagas : OmniaValidation(s)
    \/ \E s \in Sagas : OmniaValidationRaises(s)
    \/ \E s \in Sagas : CloseConnection(s)

SpecSaga == SagaSpecInit /\ [][SagaNext]_vars

(***************************************************************************)
(* Specification of two exports of one upload that has not been exported,  *)
(* has an optimized file and belongs to a show the platform knows.  The    *)
(* event loop runs the two generators in any interleaving of their awaits, *)
(* the one after the other included.                                       *)
(***************************************************************************)
ExportsSpecInit ==
    /\ StatesIdle
    /\ WorkerIdle
    /\ store \in {upload \in UploadsToExport :
                     /\ upload.omnia_id = NoId
                     /\ upload.files = {"source_file", "waveform", "optimized_file"}
                     /\ upload.state[1] = "OPTIMIZATION_COMPLETE"}
    /\ writes = NoWrites
    /\ show \in {sh \in Shows : sh.omnia_id # NoId /\ sh.cover /\ ~sh.is_radio}
    /\ omnia_items = <<>>
    /\ SagaInit(Exports)
    /\ parser = NoParse

\* of the answers of the platform to the by_id of step 8, those in which at
\* most the title differs and the connected shows are listed in full
TitleMayDiffer ==
    \A i \in 1..Len(omnia_items') :
        /\ omnia_items'[i].differs \subseteq {"Titel"}
        /\ omnia_items'[i].connected_media # "shows" =>
              omnia_items'[i] = omnia_items[i]
        /\ omnia_items'[i].connected_ids \in {{}, omnia_items[i].shows}

\* SagaNext without the two failures that need a missing file or cover
ExportsNext ==
    \/ \E s \in Exports : FetchUpload(s)
    \/ \E s \in Exports : FetchUploadAlreadyExported(s)
    \/ \E s \in Exports : FetchUploadRaises(s)
    \/ \E s \in Exports : \E i \in 2..Len(Targets) : StepRunning(s, Targets[i])
    \/ \E s \in Exports : FetchOmniaShow(s)
    \/ \E s \in Exports : FetchOmniaShowRaisesBeforeCall(s)
    \/ \E s \in Exports : FetchOmniaShowRaises(s)
    \/ \E s \in Exports : CheckRefNr(s)
    \/ \E s \in Exports : CheckRefNrRaises(s)
    \/ \E s \in Exports : UploadFile(s)
    \/ \E s \in Exports : UploadFileRaises(s)
    \/ \E s \in Exports : UploadFileBadResponse(s)
    \/ \E s \in Exports : SetMetadata(s)
    \/ \E s \in Exports : SetMetadataRaises(s)
    \/ \E s \in Exports : SetCover(s)
    \/ \E s \in Exports : SetCoverRaises(s)
    \/ \E s \in Exports : UpdateOmniaId(s)
    \/ \E s \in Exports : UpdateOmniaIdRaises(s)
    \/ \E s \in Exports : UpdateOmniaState(s)
    \/ \E s \in Exports : UpdateOmniaStateRaises(s)
    \/ \E s \in Exports : OmniaValidationFetch(s) /\ TitleMayDiffer
    \/ \E s \in Exports : OmniaValidation(s)
    \/ \E s \in Exports : OmniaValidationRaises(s)
    \/ \E s \in Exports : CloseConnection(s)

SpecExports == ExportsSpecInit /\ [][ExportsNext]_vars

(***************************************************************************)
(* Specification of Silence.__parse_ffmpeg_output on any output of at most *)
(* MaxLines lines with times up to MaxTime; as silencedetect prints them,  *)
(* a line holds at most one of the two markers.                            *)
(***************************************************************************)
Times == 0..MaxTime

Lines ==
    {Line(<<>>, <<>>)}
    \cup {Line(<<time>>, <<>>) : time \in Times}
    \cup {Line(<<>>, <<time>>) : time \in Times}

FfmpegOutputs == UNION {[1..n -> Lines] : n \in 0..MaxLines}

ParseSpecInit ==
    /\ StatesIdle
    /\ store = NewUpload
    /\ writes = NoWrites
    /\ WorkerIdle
    /\ SagaIdle
    /\ parser \in {ParseCall(output) : output \in FfmpegOutputs}

ParseNext ==
    \/ ParseLine
    \/ ParseLineRaises
    \/ ParseReturn

SpecParse == ParseSpecInit /\ [][ParseNext]_vars

(***************************************************************************)
(* C3: starting all pending, after any sequence of update_state calls with *)
(* a state of the named track, the set holds at most one state per prefix; *)
(* after two optimization replacements in a row exactly one optimization   *)
(* entry.                                                                  *)
(***************************************************************************)
TwoOptimizationReplacements ==
    /\ Len(history) >= 2
    /\ history[Len(history)] = OPTIMIZATION_PREFIX
    /\ history[Len(history) - 1] = OPTIMIZATION_PREFIX

C3_OneStatePerPrefix ==
    /\ \A prefix \in {WAVEFORM_PREFIX, OPTIMIZATION_PREFIX, OMNIA_PREFIX} :
         CountPrefix(root, prefix) <= 1
    /\ TwoOptimizationReplacements => CountPrefix(root, OPTIMIZATION_PREFIX) = 1

C3_Witness ==
    /\ TwoOptimizationReplacements
    /\ CountPrefix(root, OPTIMIZATION_PREFIX) = 1
    /\ root[1] \in OptimizationStates \ {"OPTIMIZATION_PENDING"}

(***************************************************************************)
(* C4: sort() leaves the members in the order waveform, optimization,      *)
(* publish, internal whatever the order before, and two sets with the same *)
(* members are equal element by element after sort().                      *)
(***************************************************************************)
\* The rank of a track in the order the claim names.  No member of
\* UploadState belongs to an internal track.
ClaimTrackRank(state) ==
    IF state \in WaveformStates THEN 0
    ELSE IF state \in OptimizationStates THEN 1
    ELSE IF state \in OmniaStates THEN 2
    ELSE 3

InClaimOrder(states) ==
    \A i, j \in 1..Len(states) :
        i < j => ClaimTrackRank(states[i]) <= ClaimTrackRank(states[j])

TrackStates(states, prefix) ==
    {states[i] : i \in {j \in 1..Len(states) : StartsWith(states[j], prefix)}}

OtherTracksKept(prefix) ==
    \A other \in Prefixes \ {prefix} :
        TrackStates(store'.state, other) = TrackStates(store.state, other)

C1_WriteKeepsOtherTracks ==
    [][/\ pc'[WF] # pc[WF] => OtherTracksKept(WAVEFORM_PREFIX)
       /\ pc'[OPT] # pc[OPT] => OtherTracksKept(OPTIMIZATION_PREFIX)]_vars

(***************************************************************************)
(* C2: after generate_waveform and optimize_file have both completed       *)
(* without error, the Status in the store shows waveform done,             *)
(* optimization done or done-with-log, and publish still pending.          *)
(***************************************************************************)
BothCompletedWithoutError ==
    /\ pc[WF] = "done"
    /\ pc[OPT] = "done"
    /\ err = None

C2_BothTracksDone ==
    BothCompletedWithoutError =>
        /\ TrackStates(store.state, WAVEFORM_PREFIX) = {"WAVEFORM_COMPLETE"}
        /\ \/ TrackStates(store.state, OPTIMIZATION_PREFIX) = {"OPTIMIZATION_COMPLETE"}
           \/ TrackStates(store.state, OPTIMIZATION_PREFIX) = {"OPTIMIZATION_SEE_LOG"}
        /\ TrackStates(store.state, OMNIA_PREFIX) = {"OMNIA_PENDING"}

(***************************************************************************)
(* C5: the temp directory is deleted only in a state where each of the     *)
(* four subtasks has registered completion, the counter being 4.           *)
(***************************************************************************)
C5_DeleteAfterAllRegistered ==
    (pc[Barrier] = "rmtree" \/ ~temp_folder) =>
        /\ finished_workers = 4
        /\ \A t \in Subtasks : registered[t] = 1

C5_Witness ==
    /\ ~temp_folder
    /\ pc[Barrier] = "done"
    /\ pc[WF] = "raised"
    /\ pc[OPT] = "done"

(***************************************************************************)
(* C6: if all four subtasks run to their end without raising, with or      *)
(* without a cover, the counter reaches the number of subtasks (and the    *)
(* barrier then deletes the temp directory).  Once all four have returned  *)
(* the counter does not change any more, so it must be 4 by then.          *)
(***************************************************************************)
AllReturned == \A t \in Subtasks : pc[t] = "done"

C6_CounterReachesTotal == AllReturned => finished_workers = 4

(***************************************************************************)
(* C7: when generate_waveform or optimize_file raises, at whatever point,  *)
(* the counter has been incremented exactly once for that subtask by the   *)
(* time the exception leaves it.                                           *)
(***************************************************************************)
C7_RaisedHasRegistered ==
    \A t \in {WF, OPT} : pc[t] = "raised" => registered[t] = 1

(***************************************************************************)
(* Claims about the export saga, checked under SpecSaga.                   *)
(***************************************************************************)
StepIndex(target) == CHOOSE i \in 1..Len(Targets) : Targets[i] = target

ErrorEvents(s) ==
    {i \in 1..Len(events[s]) : events[s][i].state = "error"}

Closed(s) == spc[s] = <<"closed", "">>

(***************************************************************************)
(* C8: if a step of run() raises an exception other than the already-      *)
(* exported one, the stream holds exactly one event with state error, the  *)
(* target of that event is the target of the step that raised, nothing but *)
(* the terminator follows it, no event of a later step is in the stream,   *)
(* and no later step has made a platform call or a store write.            *)
(***************************************************************************)
C8_OneErrorOfRaisingStep ==
    \A s \in Sagas :
        (raised[s] # <<>> /\ raised[s][2] = "Exception") =>
            LET step == raised[s][1]
                ev == events[s]
            IN  /\ Cardinality(ErrorEvents(s)) = 1
                /\ \A i \in ErrorEvents(s) :
                      /\ ev[i].target = step
                      /\ \A j \in (i + 1)..Len(ev) : ev[j] = close_connection
                /\ \A k \in 1..Len(ev) :
                      ev[k] # close_connection =>
                          StepIndex(ev[k].target) <= StepIndex(step)
                /\ \A c \in 1..Len(calls[s]) :
                      StepIndex(calls[s][c][1]) <= StepIndex(step)

\* set_metadata raised after the file had been uploaded to the platform;
\* the run was consumed to its end
C8_Witness ==
    /\ Closed(1)
    /\ raised[1] = <<"metadata", "Exception">>
    /\ calls[1] # <<>>
    /\ Len(events[1]) > 3

(***************************************************************************)
(* C9: a run of the saga that is consumed to its end, whether it ends in   *)
(* success, in a warning, in the already-exported error or in the failure  *)
(* of a step, has emitted CLOSE CONNECTION exactly once and as its last    *)
(* item; a run that has not ended has not emitted it.                      *)
(***************************************************************************)
CloseEvents(s) ==
    {i \in 1..Len(events[s]) : events[s][i] = close_connection}

C9_CloseOnceAndLast ==
    \A s \in Sagas :
        IF Closed(s)
        THEN /\ Cardinality(CloseEvents(s)) = 1
             /\ CloseEvents(s) = {Len(events[s])}
        ELSE CloseEvents(s) = {}

\* a run that ended because set_cover raised
C9_Witness ==
    /\ Closed(1)
    /\ raised[1] = <<"cover", "Exception">>
    /\ events[1][Len(events[1])] = close_connection

(***************************************************************************)
(* C10: if the upload row fetched in step 1 carries a platform id, the     *)
(* first event of the run is the already-exported error, whose shape       *)
(* differs from the generic error of the init step; it is the only event   *)
(* before the terminator, and the run makes no platform call and no store  *)
(* write.                                                                  *)
(***************************************************************************)
C10_AlreadyExported ==
    \A s \in Sagas :
        (fetched[s] # NoRow /\ fetched[s][1].omnia_id # NoId) =>
            /\ events[s] \in {<<omnia_id_not_empty>>,
                              <<omnia_id_not_empty, close_connection>>}
            /\ events[s][1].title # Error("init").title
            /\ events[s][1].items # Error("init").items
            /\ calls[s] = <<>>
            /\ store = fetched[s][1]

C10_Witness ==
    /\ Closed(1)
    /\ fetched[1] # NoRow
    /\ fetched[1][1].omnia_id = <<1>>
    /\ events[1] = <<omnia_id_not_empty, close_connection>>

(***************************************************************************)
(* C11: in every run the events come grouped by step in the order init,    *)
(* show, refnr, upload, metadata, cover, update_baserow_entry,             *)
(* omnia_validation: no event of a step precedes an event of an earlier    *)
(* step, every event of a step behind the first comes after the done or    *)
(* warning event of the step before it, and a run in which no step fails   *)
(* holds events of all eight steps.                                        *)
(***************************************************************************)
StepEvents(s) ==
    {k \in 1..Len(events[s]) : events[s][k] # close_connection}

C11_EventsInStepOrder ==
    \A s \in Sagas :
        LET ev == events[s]
            step(k) == StepIndex(ev[k].target)
        IN  /\ \A k \in StepEvents(s) :
                  /\ \A j \in StepEvents(s) : j < k => step(j) <= step(k)
                  /\ step(k) > 1 =>
                        \E j \in 1..(k - 1) :
                            /\ ev[j].target = Targets[step(k) - 1]
                            /\ ev[j].state \in {"done", "warning"}
            /\ (Closed(s) /\ raised[s] = <<>>) =>
                  \A i \in 1..Len(Targets) :
                      \E k \in StepEvents(s) : ev[k].target = Targets[i]

\* a run without failure: one event of init, two of each later step, the
\* terminator
C11_Witness ==
    /\ Closed(1)
    /\ raised[1] = <<>>
    /\ Len(events[1]) = 16
    /\ events[1][15].target = "omnia_validation"

(***************************************************************************)
(* C12: every done, warning or step-failure event of a step is immediately *)
(* preceded by the running event with the same target.                     *)
(***************************************************************************)
\* the events a step yields after its work: done, warning, or the error of
\* the generic handler
OutcomeEvents(s) ==
    {k \in StepEvents(s) :
        \/ events[s][k].state \in {"done", "warning"}
        \/ /\ events[s][k].state = "error"
           /\ events[s][k].title = "from_exception"}

RunningBefore(s, k) ==
    /\ k > 1
    /\ events[s][k - 1] = Running(events[s][k].target)

C12_RunningBeforeEveryOutcome ==
    \A s \in Sagas : \A k \in OutcomeEvents(s) : RunningBefore(s, k)

(***************************************************************************)
(* C12 as amended: every done, warning or step-failure event of a step     *)
(* other than init is immediately preceded by the running event with the   *)
(* same target; the init step yields no running event, its done or error   *)
(* event is the first event of the stream.                                 *)
(***************************************************************************)
C12_RunningBeforeOutcomeAfterInit ==
    \A s \in Sagas : \A k \in OutcomeEvents(s) :
        IF events[s][k].target = "init" THEN k = 1 ELSE RunningBefore(s, k)

\* refnr ended with a warning, upload raised
C12_Witness ==
    /\ Closed(1)
    /\ raised[1] = <<"upload", "Exception">>
    /\ events[1][1] = Done("init", {"Baserow ID", "Name", "Geplante Ausstrahlung"})
    /\ events[1][5].state = "warning"
    /\ events[1][7] = Error("upload")

(***************************************************************************)
(* C13: the platform id is written to the store and the publish track set  *)
(* to done only in a run in which init, show, refnr, upload, metadata and  *)
(* cover have all completed without error, and the id written is the id of *)
(* the item the platform created in the upload step of that run.  A run    *)
(* that has made no such write has left the row as it fetched it.          *)
(***************************************************************************)
StoreWrites(s) ==
    {c \in 1..Len(calls[s]) : calls[s][c][1] = "update_baserow_entry"}

Completed(s, target) ==
    \E k \in StepEvents(s) :
        /\ events[s][k].target = target
        /\ events[s][k].state \in {"done", "warning"}

C13_StoreWrittenAfterSixSteps ==
    \A s \in Sagas :
        /\ StoreWrites(s) # {} =>
              /\ \A i \in 1..6 : Completed(s, Targets[i])
              /\ omnia_items # <<>>
              /\ store.omnia_id = <<omnia_items[Len(omnia_items)].item_id>>
              /\ <<"upload", "upload_by_url">> \in
                    {calls[s][c] : c \in 1..Len(calls[s])}
        /\ (StoreWrites(s) = {} /\ fetched[s] # NoRow) => store = fetched[s][1]
        /\ writes[OMNIA_PREFIX] # <<>> =>
              /\ Cardinality(StoreWrites(s)) = 2
              /\ TrackStates(store.state, OMNIA_PREFIX) = {"OMNIA_COMPLETE"}

\* the platform held an item before the run, the run created item 2 and
\* wrote its id and the publish state
C13_Witness ==
    /\ Closed(1)
    /\ Len(omnia_items) = 2
    /\ store.omnia_id = <<2>>
    /\ Cardinality(StoreWrites(1)) = 2
    /\ TrackStates(store.state, OMNIA_PREFIX) = {"OMNIA_COMPLETE"}

(***************************************************************************)
(* C14: when the saga fails at the metadata or the cover step, the item    *)
(* the upload step created is still on the platform, the run has made no   *)
(* call but those of its steps, and the platform id and the Status of the  *)
(* upload in the store are what they were before the run.                  *)
(***************************************************************************)
\* the calls the steps up to cover make to the platform
ForwardCalls ==
    {<<"show", "by_id">>, <<"refnr", "by_reference">>,
     <<"upload", "upload_by_url">>, <<"metadata", "update">>,
     <<"metadata", "update_restrictions">>, <<"metadata", "connect_show">>,
     <<"cover", "update_cover">>}

FailedAfterUpload(s) ==
    raised[s] \in {<<"metadata", "Exception">>, <<"cover", "Exception">>}

C14_NoRollbackNoStoreChange ==
    \A s \in Sagas :
        FailedAfterUpload(s) =>
            /\ \E i \in 1..Len(omnia_items) :
                  omnia_items[i].item_id = omnia_item_id[s][1]
            /\ \A c \in 1..Len(calls[s]) : calls[s][c] \in ForwardCalls
            /\ store.omnia_id = fetched[s][1].omnia_id
            /\ store.state = fetched[s][1].state
            /\ store.omnia_id = NoId
            /\ writes = NoWrites

\* update_cover raised after the metadata had been set on the new item
C14_Witness ==
    /\ Closed(1)
    /\ raised[1] = <<"cover", "Exception">>
    /\ omnia_items[Len(omnia_items)].metadata
    /\ omnia_items[Len(omnia_items)].item_id = omnia_item_id[1][1]
    /\ <<"cover", "update_cover">> \in {calls[1][c] : c \in 1..Len(calls[1])}

(***************************************************************************)
(* C15: when the platform already holds an item with the reference number  *)
(* of the upload and the lookup of the duplicate check returns, the step   *)
(* ends with a warning event, not with an error or a done event, and the   *)
(* run goes on to the upload step: the running event of upload is the next *)
(* event of the stream.                                                    *)
(***************************************************************************)
\* the duplicate check of run s returns in this step, with a hit
RefNrHitReturns(s) ==
    /\ SAt(s, "refnr", "work")
    /\ omnia_items # <<>>
    /\ spc'[s] # spc[s]
    /\ raised'[s] = <<>>

C15_DuplicateIsWarning ==
    /\ [][\A s \in Sagas :
            RefNrHitReturns(s) =>
                /\ Len(events'[s]) = Len(events[s]) + 1
                /\ events'[s][Len(events'[s])].target = "refnr"
                /\ events'[s][Len(events'[s])].state = "warning"
                /\ spc'[s] = <<"upload", "running">>]_vars
    /\ [](\A s \in Sagas : \A k \in StepEvents(s) :
            (/\ events[s][k].target = "refnr"
             /\ events[s][k].state = "warning"
             /\ k < Len(events[s])) => events[s][k + 1] = Running("upload"))

\* a duplicate was reported and the upload step created a second item
C15_Witness ==
    /\ Len(omnia_items) = 2
    /\ events[1][5].target = "refnr"
    /\ events[1][5].state = "warning"
    /\ events[1][6] = Running("upload")
    /\ events[1][7] = Done("upload", {"Omnia Element ID"})

(***************************************************************************)
(* C16: when the item re-fetched by the validation step differs from what  *)
(* was requested in a validated field (title, description, membership of   *)
(* the linked show, release date, the four availability bounds), the last  *)
(* event before the terminator is a warning of the validation step whose   *)
(* items hold one key per mismatching field; no mismatch makes run() raise *)
(* or yield an error event, and the terminator follows.                    *)
(***************************************************************************)
\* the validated fields in which the re-fetched item is not as requested
Mismatches(item) ==
    item.differs \cup
    (IF /\ item.connected_media = "shows"
        /\ show.omnia_id[1] \in item.connected_ids
     THEN {} ELSE {"Verknuepfte Sendung"})

\* by_id of the validation step has returned the item
Refetched(s) ==
    /\ <<"omnia_validation", "by_id">> \in {calls[s][c] : c \in 1..Len(calls[s])}
    /\ raised[s] = <<>>

C16_MismatchIsWarning ==
    \A s \in Sagas :
        Refetched(s) =>
            LET item == omnia_items[ItemIndex(omnia_item_id[s][1])]
                last == events[s][Len(events[s])]
                n == Len(events[s])
            IN /\ ErrorEvents(s) = {}
               /\ SAt(s, "omnia_validation", "validate") =>
                     /\ last = Running("omnia_validation")
                     /\ ENABLED OmniaValidation(s)
               /\ SAt(s, "close", "work") =>
                     last = IF Mismatches(item) # {}
                            THEN Warning("omnia_validation", Mismatches(item))
                            ELSE Done("omnia_validation", {})
               /\ Closed(s) =>
                     /\ last = close_connection
                     /\ events[s][n - 1] =
                           IF Mismatches(item) # {}
                           THEN Warning("omnia_validation", Mismatches(item))
                           ELSE Done("omnia_validation", {})

\* the title and the show link of the re-fetched item are not as requested,
\* and the run has ended with the warning and the terminator
C16_Witness ==
    \E s \in Sagas :
        /\ Closed(s)
        /\ Refetched(s)
        /\ Mismatches(omnia_items[ItemIndex(omnia_item_id[s][1])]) =
              {"Titel", "Verknuepfte Sendung"}
        /\ events[s][Len(events[s]) - 1].state = "warning"

(***************************************************************************)
(* C17: the publish track follows pending -> running -> {done, error}:     *)
(* every write of OMNIA_COMPLETE to the store by a run is preceded, in the *)
(* same run, by a write of OMNIA_RUNNING, and no step moves the track from *)
(* OMNIA_PENDING directly to OMNIA_COMPLETE.                               *)
(***************************************************************************)
C17_PublishRunningBeforeDone ==
    /\ [](\A k \in 1..Len(writes[OMNIA_PREFIX]) :
            writes[OMNIA_PREFIX][k] = "OMNIA_COMPLETE" =>
                \E j \in 1..(k - 1) : writes[OMNIA_PREFIX][j] = "OMNIA_RUNNING")
    /\ [][~ /\ TrackStates(store.state, OMNIA_PREFIX) = {"OMNIA_PENDING"}
            /\ TrackStates(store'.state, OMNIA_PREFIX) = {"OMNIA_COMPLETE"}]_vars

(***************************************************************************)
(* The states one run of a subtask has written to its track.               *)
(***************************************************************************)
IsPrefixOf(seq, full) ==
    /\ Len(seq) <= Len(full)
    /\ \A i \in 1..Len(seq) : seq[i] = full[i]

\* written is "running" and then at most one of the terminal states
RunningThenOne(written, running, terminal) ==
    \E last \in terminal : IsPrefixOf(written, <<running, last>>)

(***************************************************************************)
(* C18: the states optimize_file writes to the optimization track in one   *)
(* run are OPTIMIZATION_RUNNING followed by exactly one of COMPLETE,       *)
(* SEE_LOG or ERROR; after one of the three no further state is written to *)
(* the track in that run, also when a later store write or the file upload *)
(* fails.                                                                  *)
(***************************************************************************)
C18_OptimizationOneTerminalState ==
    /\ RunningThenOne(writes[OPTIMIZATION_PREFIX], "OPTIMIZATION_RUNNING",
                      {"OPTIMIZATION_COMPLETE", "OPTIMIZATION_SEE_LOG",
                       "OPTIMIZATION_ERROR"})
    /\ At(OPT, "done") => Len(writes[OPTIMIZATION_PREFIX]) = 2

(***************************************************************************)
(* C19: the states generate_waveform writes to the waveform track in one   *)
(* run are WAVEFORM_RUNNING followed by exactly one of WAVEFORM_COMPLETE   *)
(* or WAVEFORM_ERROR; after one of the two no further state is written to  *)
(* the track in that run, on any path.                                     *)
(***************************************************************************)
C19_WaveformOneTerminalState ==
    /\ RunningThenOne(writes[WAVEFORM_PREFIX], "WAVEFORM_RUNNING",
                      {"WAVEFORM_COMPLETE", "WAVEFORM_ERROR"})
    /\ At(WF, "done") =>
          writes[WAVEFORM_PREFIX] =
             <<"WAVEFORM_RUNNING",
               IF err # None THEN "WAVEFORM_ERROR" ELSE "WAVEFORM_COMPLETE">>
    /\ (At(WF, "raised") /\ Len(writes[WAVEFORM_PREFIX]) = 2) =>
          writes[WAVEFORM_PREFIX][2] = "WAVEFORM_ERROR"

\* the upload of the waveform has raised after WAVEFORM_RUNNING was written:
\* the handler has written WAVEFORM_ERROR and the subtask has ended
C19_Witness ==
    /\ At(WF, "raised")
    /\ writes[WAVEFORM_PREFIX] = <<"WAVEFORM_RUNNING", "WAVEFORM_ERROR">>
    /\ "waveform" \notin store.files

(***************************************************************************)
(* C20: for a file with 2 s of silence at its start and no other silence,  *)
(* with a crop allowance of 1 s, optimize_file computes a trim start of    *)
(* 1.0 s; as first stated, it ends with the optimization track at          *)
(* OPTIMIZATION_COMPLETE and an empty silence log; as amended, it ends     *)
(* with the track at OPTIMIZATION_SEE_LOG and a silence log that is not    *)
(* empty, because the log reports the silence removed at the start.        *)
(***************************************************************************)
\* silencedetect has printed one silence, from 0.0 s to 2.0 s, the file
\* goes on long enough for it not to be a silence at the end or the whole
\* file, and settings.audio_crop_allowance is 1.0
LeadingSilenceOfTwoSeconds ==
    /\ raw_file.silence_parts = <<SilencePart(0, 4)>>
    /\ ~is_at_end(SilencePart(0, 4), raw_file.duration)
    /\ ~is_whole_file(SilencePart(0, 4), raw_file.duration)
    /\ audio_crop_allowance = 2

\* the claim as first stated
C20_LeadingSilenceEndsDone ==
    (LeadingSilenceOfTwoSeconds /\ At(OPT, "done")) =>
        /\ input_options.ss = <<2>>
        /\ log = ""
        /\ writes[OPTIMIZATION_PREFIX] =
              <<"OPTIMIZATION_RUNNING", "OPTIMIZATION_COMPLETE">>

\* the amended claim
C20_LeadingSilenceEndsSeeLog ==
    LeadingSilenceOfTwoSeconds =>
        /\ log # None =>
              /\ input_options = [ss |-> <<2>>, to |-> <<>>]
              /\ silence_log(raw_file) = <<[line |-> "start"]>>
              /\ log # ""
        /\ \A k \in 1..Len(writes[OPTIMIZATION_PREFIX]) :
              writes[OPTIMIZATION_PREFIX][k] # "OPTIMIZATION_COMPLETE"
        /\ At(OPT, "done") =>
              writes[OPTIMIZATION_PREFIX] =
                 <<"OPTIMIZATION_RUNNING", "OPTIMIZATION_SEE_LOG">>

\* a file with the 2 s of silence at its start has been optimized from
\* 1.0 s on, and optimize_file has returned
C20_Witness ==
    /\ LeadingSilenceOfTwoSeconds
    /\ At(OPT, "done")
    /\ input_options.ss = <<2>>
    /\ log = "silence found"
    /\ "optimized_file" \in store.files

(***************************************************************************)
(* C21: Optimize.run sets the trim start to (end of the start silence -    *)
(* crop allowance) exactly when there is a start silence and its end is    *)
(* greater than the crop allowance, and the trim end to (start of the end  *)
(* silence + crop allowance) exactly when there is an end silence; in      *)
(* every other case the trim is not set (a start silence that ends at      *)
(* 5.0 s with an allowance of 1.5 s gives a trim start of 3.5 s).          *)
(***************************************************************************)
C21_TrimFromSilences ==
    log # None =>
        LET parts == raw_file.silence_parts
            at_start == {i \in 1..Len(parts) : parts[i].start = 0}
        IN /\ input_options.ss # <<>> <=>
                 \E i \in at_start : parts[i].end > audio_crop_allowance
           /\ input_options.ss # <<>> =>
                 \E i \in at_start :
                    input_options.ss = <<parts[i].end - audio_crop_allowance>>
           /\ input_options.to # <<>> <=> end_silence(raw_file) # <<>>
           /\ input_options.to # <<>> =>
                 input_options.to =
                    <<end_silence(raw_file)[1].start + audio_crop_allowance>>
           /\ (/\ Len(parts) > 0
               /\ parts[1] = SilencePart(0, 10)
               /\ audio_crop_allowance = 3) => input_options.ss = <<7>>

\* the start silence ends at 5.0 s, the allowance is 1.5 s, and Optimize.run
\* has computed a trim start of 3.5 s
C21_Witness ==
    /\ log # None
    /\ raw_file.silence_parts = <<SilencePart(0, 10)>>
    /\ audio_crop_allowance = 3
    /\ input_options.ss = <<7>>

(***************************************************************************)
(* The markers of a silencedetect output.                                  *)
(***************************************************************************)
Markers(output) ==
    SelectSeq(output, LAMBDA entry : entry.start # <<>> \/ entry.end # <<>>)

MarkerTime(entry) == IF entry.start # <<>> THEN entry.start[1] ELSE entry.end[1]

\* start and end markers alternate, beginning with a start, n of each
Balanced(output) ==
    LET markers == Markers(output)
    IN /\ Len(markers) % 2 = 0
       /\ \A k \in 1..Len(markers) :
             IF k % 2 = 1 THEN markers[k].start # <<>> ELSE markers[k].end # <<>>

\* the times of the markers do not go back
InTimeOrder(output) ==
    LET markers == Markers(output)
    IN \A j, k \in 1..Len(markers) :
          j < k => MarkerTime(markers[j]) <= MarkerTime(markers[k])

EndWithoutOpen(output, k) ==
    /\ output[k].end # <<>>
    /\ output[k].start = <<>>
    /\ LET before == Markers(SubSeq(output, 1, k - 1))
       IN before = <<>> \/ before[Len(before)].end # <<>>

C29_EndWithoutOpenFails ==
    (\E k \in 1..Len(parser.output) : EndWithoutOpen(parser.output, k)) =>
        parser.at # "returned"

(***************************************************************************)
(* C23: for every SilencePart and every total duration, the part is        *)
(* at-start exactly when start = 0, at-end exactly when the end and the    *)
(* total are less than 2 s apart, and whole-file exactly when the duration *)
(* and the total are less than 2 s apart, whatever the position of the     *)
(* part in the list.  As first stated the distances are those of the times *)
(* themselves; as amended they are those of the times rounded to whole     *)
(* seconds, a half going to the even second.                               *)
(***************************************************************************)
\* the whole second nearest to half / 2 seconds, the even one of two
WholeSecond(half) ==
    CHOOSE n \in 0..half :
        /\ abs(2 * n - half) <= 1
        /\ abs(2 * n - half) = 1 => n % 2 = 0

\* the claim as first stated: 4 half seconds are 2 s
C23_ClassifiedByDistance ==
    log # None =>
        \A i \in 1..Len(raw_file.silence_parts) :
            LET part == raw_file.silence_parts[i]
            IN /\ is_at_start(part) <=> part.start = 0
               /\ is_at_end(part, raw_file.duration) <=>
                     abs(part.end - raw_file.duration) < 4
               /\ is_whole_file(part, raw_file.duration) <=>
                     abs(part.duration - raw_file.duration) < 4

\* the amended claim
C23_ClassifiedByRoundedDistance ==
    log # None =>
        \A i \in 1..Len(raw_file.silence_parts) :
            LET part == raw_file.silence_parts[i]
                total == WholeSecond(raw_file.duration)
            IN /\ is_at_start(part) <=> part.start = 0
               /\ is_at_end(part, raw_file.duration) <=>
                     abs(WholeSecond(part.end) - total) < 2
               /\ is_whole_file(part, raw_file.duration) <=>
                     abs(WholeSecond(part.duration) - total) < 2
               /\ is_at_end(part, raw_file.duration) =>
                     abs(part.end - raw_file.duration) < 4
               /\ is_whole_file(part, raw_file.duration) =>
                     abs(part.duration - raw_file.duration) < 4

\* a silence that ends at 2.0 s in a file of 3.5 s, second in the list: it
\* ends 1.5 s before the end of the file and is not at-end, 3.5 s being
\* rounded to 4 s
C23_Witness ==
    /\ log # None
    /\ raw_file.duration = 7
    /\ Len(raw_file.silence_parts) = 2
    /\ raw_file.silence_parts[2] = SilencePart(3, 4)
    /\ ~is_at_end(raw_file.silence_parts[2], raw_file.duration)

(***************************************************************************)
(* C24: whenever whole_file_is_silence is true, Silence.log() returns      *)
(* exactly one line, the whole-file line, and no start, end or             *)
(* intermediate line, whatever other parts the list contains.              *)
(***************************************************************************)
C24_WholeFileLogIsOneLine ==
    (log # None /\ \E i \in 1..Len(raw_file.silence_parts) :
                      is_whole_file(raw_file.silence_parts[i], raw_file.duration)) =>
        /\ Len(silence_log(raw_file)) = 1
        /\ silence_log(raw_file)[1].line = "whole_file"
        /\ log # ""

\* a silence of 4 s at the start of a file of 5 s counts as the whole file;
\* a second silence lies at the end, and the log has been computed
C24_Witness ==
    /\ log # None
    /\ raw_file.duration = 10
    /\ raw_file.silence_parts = <<SilencePart(0, 8), SilencePart(9, 10)>>
    /\ silence_log(raw_file) = <<[line |-> "whole_file"]>>

(***************************************************************************)
(* C30: intermediate_silences returns, in their original order, exactly    *)
(* the parts that are neither at-start, nor at-end, nor whole-file: a part *)
(* classified whole-file is never in the result, for every list of parts   *)
(* with 0 <= start <= end <= total.                                        *)
(***************************************************************************)
C30_IntermediateSilences ==
    log # None =>
        LET parts == raw_file.silence_parts
            total == raw_file.duration
            result == intermediate_silences(raw_file)
        IN /\ result =
                 SelectSeq(parts, LAMBDA part : /\ part.start # 0
                                                /\ ~is_at_end(part, total)
                                                /\ ~is_whole_file(part, total))
           /\ \A i \in 1..Len(result) : ~is_whole_file(result[i], total)

\* of a silence from 0.5 s to 1.0 s and one from 1.5 s to the end of a file
\* of 5 s, which counts as the whole file, only the first is intermediate
C30_Witness ==
    /\ log # None
    /\ raw_file.duration = 10
    /\ raw_file.silence_parts = <<SilencePart(1, 2), SilencePart(3, 10)>>
    /\ is_whole_file(SilencePart(3, 10), 10)
    /\ intermediate_silences(raw_file) = <<SilencePart(1, 2)>>

(***************************************************************************)
(* C25: if the transcoding step fails inside optimize_file, the exception  *)
(* leaves the subtask, the last state written to the optimization track is *)
(* OPTIMIZATION_ERROR, and no optimized file is attached to the upload.    *)
(***************************************************************************)
\* the handler runs and no log has been computed: the transcoding failed
TranscodingFailed(label) == At(OPT, label) /\ log = None

C25_TranscodingFailurePropagates ==
    /\ [][At(OPT, "run") =>
            \/ pc'[OPT] = "state" /\ log' # None
            \/ pc'[OPT] = "except" /\ log' = None /\ UNCHANGED storeVars]_vars
    /\ [][(At(OPT, "except") \/ At(OPT, "except_count")) =>
            /\ pc'[OPT] \in {"except_count", "raised"}
            /\ store'.files = store.files]_vars
    /\ [](TranscodingFailed("except") =>
            /\ writes[OPTIMIZATION_PREFIX] = <<"OPTIMIZATION_RUNNING">>
            /\ "optimized_file" \notin store.files)
    /\ [](TranscodingFailed("except_count") =>
            /\ writes[OPTIMIZATION_PREFIX] =
                  <<"OPTIMIZATION_RUNNING", "OPTIMIZATION_ERROR">>
            /\ "optimized_file" \notin store.files)
    /\ []((At(OPT, "raised") /\ log = None) =>
            /\ "optimized_file" \notin store.files
            /\ Len(writes[OPTIMIZATION_PREFIX]) = 2 =>
                  writes[OPTIMIZATION_PREFIX][2] = "OPTIMIZATION_ERROR")

\* the transcoding has failed, the handler has written OPTIMIZATION_ERROR and
\* the exception has left optimize_file
C25_Witness ==
    /\ At(OPT, "raised")
    /\ log = None
    /\ writes[OPTIMIZATION_PREFIX] = <<"OPTIMIZATION_RUNNING", "OPTIMIZATION_ERROR">>
    /\ TrackStates(store.state, OPTIMIZATION_PREFIX) = {"OPTIMIZATION_ERROR"}
    /\ "optimized_file" \notin store.files

(***************************************************************************)
(* C26: the cover step sends the upload's own cover to the platform when   *)
(* the upload has one and the show's cover otherwise; when neither the     *)
(* upload nor the show has a cover, the step ends in an error event and no *)
(* cover call reaches the platform.                                        *)
(***************************************************************************)
CoverCalls(s) ==
    {c \in 1..Len(calls[s]) : calls[s][c] = <<"cover", "update_cover">>}

\* the work of the cover step is over
CoverStepOver(s) ==
    /\ \E k \in StepEvents(s) : events[s][k] = Running("cover")
    /\ spc[s] # <<"cover", "work">>

C26_CoverOfUploadElseShow ==
    \A s \in Sagas :
        CoverStepOver(s) =>
            LET item == omnia_items[ItemIndex(omnia_item_id[s][1])]
                own == "cover" \in fetched[s][1].files
            IN /\ Completed(s, "cover") =>
                    /\ own => item.cover = "UPLOAD"
                    /\ ~own => (show.cover /\ item.cover = "SHOW")
                    /\ Cardinality(CoverCalls(s)) = 1
               /\ (~own /\ ~show.cover) =>
                    /\ raised[s] = <<"cover", "Exception">>
                    /\ CoverCalls(s) = {}
                    /\ item.cover = None
                    /\ \E k \in ErrorEvents(s) : events[s][k].target = "cover"

\* neither the upload nor the show has a cover: the run has ended with the
\* error event of the cover step and without a cover call
C26_Witness ==
    \E s \in Sagas :
        /\ Closed(s)
        /\ raised[s] = <<"cover", "Exception">>
        /\ "cover" \notin fetched[s][1].files
        /\ ~show.cover
        /\ CoverCalls(s) = {}

(***************************************************************************)
(* C27: after a metadata step that ends in done, the platform item has     *)
(* been connected to the resolved show id and to every show id of          *)
(* shows_for_all_upload_exports, for every upload and show.                *)
(***************************************************************************)
C27_ConnectedToAllShows ==
    \A s \in Sagas :
        Completed(s, "metadata") =>
            LET item == omnia_items[ItemIndex(omnia_item_id[s][1])]
            IN /\ show.omnia_id[1] \in item.shows
               /\ \A i \in 1..Len(shows_for_all_upload_exports) :
                     shows_for_all_upload_exports[i] \in item.shows

(***************************************************************************)
(* C28: if upload_raw or upload_cover raises, the exception leaves the     *)
(* subtask and the counter is not incremented for it, so the counter stays *)
(* below the number of subtasks and the barrier does not delete the temp   *)
(* directory.                                                              *)
(***************************************************************************)
C28_UploadFailureBlocksBarrier ==
    \A t \in {"upload_raw", "upload_cover"} :
        At(t, "raised") =>
            /\ registered[t] = 0
            /\ finished_workers < Cardinality(Subtasks)
            /\ At(Barrier, "start")
            /\ temp_folder

\* upload_raw has raised, the three other subtasks have counted, and the
\* barrier is still in its loop with the temp directory in place
C28_Witness ==
    /\ At("upload_raw", "raised")
    /\ finished_workers = 3
    /\ At("upload_cover", "done")
    /\ At(WF, "done")
    /\ At(OPT, "done")
    /\ At(Barrier, "start")
    /\ temp_folder

(***************************************************************************)
(* C31: on its success path optimize_file sets the optimization track to   *)
(* OPTIMIZATION_COMPLETE exactly when the log of the Silence analyzer is   *)
(* empty, which is exactly when the file has no silence at its start, no   *)
(* silence at its end, no intermediate silence and is not silent as a      *)
(* whole, and to OPTIMIZATION_SEE_LOG in every other case.                 *)
(***************************************************************************)
\* no part silencedetect has printed is at the start, at the end, in between
\* or as long as the file
NoSilenceFound ==
    LET parts == raw_file.silence_parts
    IN /\ \A i \in 1..Len(parts) : parts[i].start # 0
       /\ \A i \in 1..Len(parts) : ~is_at_end(parts[i], raw_file.duration)
       /\ \A i \in 1..Len(parts) :
             is_at_start(parts[i]) \/ is_at_end(parts[i], raw_file.duration)
       /\ \A i \in 1..Len(parts) : ~is_whole_file(parts[i], raw_file.duration)

C31_DoneIffLogEmpty ==
    LET written == writes[OPTIMIZATION_PREFIX]
    IN /\ log # None => (log = "" <=> NoSilenceFound)
       /\ \A k \in 1..Len(written) :
             /\ written[k] = "OPTIMIZATION_COMPLETE" =>
                   log = "" /\ NoSilenceFound
             /\ written[k] = "OPTIMIZATION_SEE_LOG" =>
                   log \notin {None, ""} /\ ~NoSilenceFound
       /\ At(OPT, "done") =>
             written = <<"OPTIMIZATION_RUNNING",
                         IF NoSilenceFound THEN "OPTIMIZATION_COMPLETE"
                         ELSE "OPTIMIZATION_SEE_LOG">>

\* optimize_file has returned for a file in which no silence was found: the
\* log was empty and the track is at OPTIMIZATION_COMPLETE
C31_Witness ==
    /\ At(OPT, "done")
    /\ NoSilenceFound
    /\ log = ""
    /\ writes[OPTIMIZATION_PREFIX] =
          <<"OPTIMIZATION_RUNNING", "OPTIMIZATION_COMPLETE">>
    /\ \E k \in 1..Len(store.state) : store.state[k] = "OPTIMIZATION_COMPLETE"

(***************************************************************************)
(* C32: within one FileWorker the upload row is fetched from the store and *)
(* the file-name prefix is computed at most once, whichever subtasks ask   *)
(* for it first and in whichever interleaving, and every file name the     *)
(* worker produces carries that one prefix.                                *)
(***************************************************************************)
\* BaserowUpload.by_id(...).one() returns only into a cache that is still
\* empty, so that no second fetch follows a first one; the prefix cache holds
\* nothing or the one prefix of the row
C32_FetchedOnce ==
    /\ [][\A t \in Subtasks : UploadFetch(t) => cached_upload = NoRow]_vars
    /\ [](file_name_prefix \in {None, "prefix"})

(***************************************************************************)
(* C33: after a run for an upload has emitted the done event of the        *)
(* update_baserow_entry step, every later run for the same upload is       *)
(* rejected at its fetch step: it emits only the already-exported error    *)
(* and the terminator, and it creates no further item on the platform.     *)
(* Stated for a later run whose by_id of the row returns.                  *)
(***************************************************************************)
\* the run has emitted UpdateBaserowEntryNotification.done()
UpdateDone(s) ==
    \E k \in 1..Len(events[s]) : events[s][k] = Done("update_baserow_entry", {})

\* the run has been turned away by its first step
Rejected(s) ==
    /\ Len(events[s]) > 0
    /\ events[s][1].target = "init"
    /\ events[s][1].state = "error"

C33_LaterRunRejected ==
    /\ [][\A s1 \in Exports : \A s2 \in Exports \ {s1} :
            (UpdateDone(s1) /\ SAt(s2, "init", "work") /\ spc'[s2] # spc[s2]) =>
                /\ spc'[s2] = <<"close", "work">>
                /\ fetched'[s2] # NoRow => events'[s2] = <<omnia_id_not_empty>>
                /\ omnia_items' = omnia_items
                /\ store' = store]_vars
    /\ [](\A s \in Exports : Rejected(s) =>
            /\ Len(events[s]) <= 2
            /\ Len(events[s]) = 2 => events[s][2] = close_connection
            /\ calls[s] = <<>>
            /\ omnia_item_id[s] = NoId)

\* the first run has got through its eight steps and created one item; the
\* second, started behind the store update of the first, has ended with the
\* already-exported error and the terminator, and one item exists
C33_Witness ==
    /\ UpdateDone(1)
    /\ Closed(1)
    /\ fetched[2] # NoRow
    /\ fetched[2][1].omnia_id = <<1>>
    /\ \E k \in 1..Len(fetched[2][1].state) : fetched[2][1].state[k] = "OMNIA_COMPLETE"
    /\ events[2] = <<omnia_id_not_empty, close_connection>>
    /\ Len(omnia_items) = 1

(***************************************************************************)
(* C34: in every reachable state of a FileWorker the completion counter    *)
(* equals the number of subtasks that have registered completion: each of  *)
(* the four subtasks increments it at most once on every path (success,    *)
(* caught failure, skip), no increment is lost in any interleaving, and    *)
(* the counter never exceeds 4.                                            *)
(***************************************************************************)
C34_CounterCountsRegistered ==
    /\ \A t \in Subtasks : registered[t] \in {0, 1}
    /\ finished_workers = Cardinality({t \in Subtasks : registered[t] > 0})
    /\ finished_workers =
          registered["upload_raw"] + registered["upload_cover"]
          + registered["generate_waveform"] + registered["optimize_file"]
    /\ finished_workers <= 4
    /\ \A t \in Subtasks : (At(t, "start") \/ At(t, "count")) => registered[t] = 0

\* all four subtasks have registered, the waveform one on its caught
\* failure and the others on their success, and the counter is at 4
C34_Witness ==
    /\ finished_workers = 4
    /\ \A t \in Subtasks : registered[t] = 1
    /\ At(WF, "raised")
    /\ At(OPT, "done")
    /\ At("upload_raw", "done")
    /\ At("upload_cover", "done")

(***************************************************************************)
(* C35: no subtask of a FileWorker reads or writes a file under the temp   *)
(* folder after it has registered completion, so in no interleaving does a *)
(* subtask touch the temp folder after the barrier has deleted it.         *)
(***************************************************************************)
\* the positions of a subtask at which an access to the temp folder is still
\* ahead: the copy and the open of __upload_named_file, the files ffmpeg
\* reads and writes in waveform.run, Silence, optimize.run and Metadata
TempAccessAhead(t) ==
    IF t \in {"upload_raw", "upload_cover"} THEN {"start"}
    ELSE IF t = WF THEN {"start", "run", "upload"}
    ELSE {"start", "lookup", "run", "state", "log", "upload"}

C35_NoTempAccessAfterRegistering ==
    \A t \in Subtasks :
        /\ registered[t] > 0 => pc[t] \notin TempAccessAhead(t)
        /\ ~temp_folder => pc[t] \notin TempAccessAhead(t)
        /\ pc[t] \in TempAccessAhead(t) => pc[Barrier] = "start"

\* the barrier has deleted the temp folder while generate_waveform, which
\* registered in its handler, has still to write WAVEFORM_ERROR to the store
C35_Witness ==
    /\ ~temp_folder
    /\ At(Barrier, "done")
    /\ At(WF, "except_state")
    /\ \A t \in Subtasks : registered[t] = 1

(***************************************************************************)
(* C36: in every state the store can be observed in, an upload whose       *)
(* optimization track is OPTIMIZATION_COMPLETE or OPTIMIZATION_SEE_LOG has *)
(* an optimized file attached, so that an export started on such a row     *)
(* finds a file to publish.                                                *)
(***************************************************************************)
C36_DoneHasOptimizedFile ==
    (\E k \in 1..Len(store.state) :
        store.state[k] \in {"OPTIMIZATION_COMPLETE", "OPTIMIZATION_SEE_LOG"})
    => "optimized_file" \in store.files

(***************************************************************************)
(* C37: whenever Optimize.run sets both a trim start and a trim end, the   *)
(* trim start is less than the trim end, for every result of the silence   *)
(* analysis, a file that is silence from its start to its end (one part    *)
(* that is both at the start and at the end) included.                     *)
(***************************************************************************)
C37_TrimStartBeforeTrimEnd ==
    (input_options.ss # <<>> /\ input_options.to # <<>>) =>
        input_options.ss[1] < input_options.to[1]

(***************************************************************************)
(* C38: two runs for the same upload whose executions overlap in time      *)
(* create at most one item on the platform: the already-exported check of  *)
(* the fetch step stops the second run before its upload step.             *)
(***************************************************************************)
\* while neither of the two runs has ended, at most one item exists and at
\* most one of the runs has got past its fetch step to upload_by_url
C38_OverlappingRunsCreateOneItem ==
    (\A s \in Exports : ~Closed(s)) =>
        /\ Len(omnia_items) <= 1
        /\ Cardinality({s \in Exports :
                           \E k \in 1..Len(calls[s]) :
                              calls[s][k] = <<"upload", "upload_by_url">>}) <= 1

(***************************************************************************)
(* C39: in every state the store can be observed in after the runs have    *)
(* stopped, an upload with a platform id has its publish track at          *)
(* OMNIA_COMPLETE: the two store writes of the update_baserow_entry step   *)
(* take effect together or not at all, also when the second write fails.   *)
(* Stated for an upload that had no platform id when the runs started.     *)
(***************************************************************************)
PublishDone ==
    \E k \in 1..Len(store.state) : store.state[k] = "OMNIA_COMPLETE"

C39_IdAndDoneTogether ==
    (\A s \in Exports : Closed(s)) => (store.omnia_id # NoId => PublishDone)

====
